---- MODULE Spec2Model ----
(***************************************************************************)
(* Model of the PaliPractice extraction pipeline: the lemma registry       *)
(* (scripts/extraction/registry.py), the FormID codec (extraction/forms.py *)
(* and extraction/validate_db.py) and the rebuild driver                   *)
(* (scripts/extract_nouns_and_verbs.py).                                   *)
(***************************************************************************)
EXTENDS Integers, Sequences, FiniteSets, TLC

(***************************************************************************)
(* Program constants (extraction/config.py).                               *)
(***************************************************************************)
NOUN_ID_START == 10001
NOUN_ID_MAX == 69999
VERB_ID_START == 70001
VERB_ID_MAX == 99999

(***************************************************************************)
(* Bounds of the model.                                                    *)
(***************************************************************************)
\* number of rebuilds (process runs) explored one after the other
MaxRuns == 2
\* number of source rows one pass (noun pass, verb pass) handles
MaxRows == 2

\* citation forms (lemma_clean) the lexical source may contain
NounLemmas == {"n1", "n2"}
VerbLemmas == {"v1", "v2"}

\* watermarks a registry file found on disk may contain
FileNounWatermarks == {NOUN_ID_START - 1, NOUN_ID_MAX, NOUN_ID_MAX + 1}
FileVerbWatermarks == {NOUN_ID_START, VERB_ID_MAX, VERB_ID_MAX + 1}

VARIABLES
    file,               \* REGISTRY_PATH on disk
    backup,             \* REGISTRY_BACKUP_PATH on disk
    tmp,                \* REGISTRY_PATH.with_suffix('.tmp') on disk
    registry,           \* the in-memory registry of the running process
    original_registry,  \* the deep copy taken right after load
    pc,                 \* position of the running process
    mode,               \* "populate" or "extract": which entry point runs
    runs,               \* number of runs started so far
    rows,               \* rows handled in the current pass
    seen,               \* populate: the lemmas of the pass handled so far
    call,               \* the last get_*_lemma_id call and what it returned
    cur,                \* extract: the row just handled, its lemma_id, gender, forms
    stats,              \* extract: the counters of extract_and_save
    err,                \* exception that ended the run
    db,                 \* the output database on disk (committed content)
    txn,                \* rows inserted on the open connection, not committed
    pool,               \* which headwords the lexical source offers
    headwords,          \* populate: the DpdHeadword rows of the lexical source
    validator,          \* the InflectionValidator: its counters, its records, the call made last
    gram,               \* the grammar classifiers: the descriptor classified last, the results
    all_tipitaka_words, \* the attested word set
    file0,              \* history: REGISTRY_PATH as it was when the run started
    db0,                \* history: the output database when the run started
    allKnown,           \* history: every lemma handled in this run was in original_registry
    codec,              \* the FormID codec: the last tuple encoded, its FormID, its decoding
    dedup,              \* the PluralOnlyDeduplicator: its index, the word checked, the result
    io                  \* history: load_registry calls and completed save_registry calls of the run

vars == <<file, backup, tmp, registry, original_registry, pc, mode, runs, rows, seen,
          call, cur, stats, err, db, txn, pool, headwords, gram, validator, all_tipitaka_words, file0, db0, allKnown,
          codec, dedup, io>>

(***************************************************************************)
(* Registry values.                                                        *)
(***************************************************************************)
EmptyMap == [l \in {} |-> 0]

Registry(nn, nv, ns, vs) ==
    [version |-> 1, next_noun_id |-> nn, next_verb_id |-> nv, nouns |-> ns, verbs |-> vs]

\* load_registry, no file: the fresh registry
FreshRegistry == Registry(NOUN_ID_START, VERB_ID_START, EmptyMap, EmptyMap)

\* no registry object exists (before load, after the process ended)
NoRegistry == [version |-> 0, next_noun_id |-> 0, next_verb_id |-> 0,
               nouns |-> EmptyMap, verbs |-> EmptyMap]

Ids(m) == {m[l] : l \in DOMAIN m}

MaxOf(S) == CHOOSE x \in S : \A y \in S : y <= x

Put(m, l, id) == [x \in DOMAIN m \cup {l} |-> IF x = l THEN id ELSE m[x]]

\* partitions a registry file found on disk may contain: empty, one lemma,
\* an ID outside the partition's range, two lemmas with the same ID
FileNounMaps ==
    {EmptyMap, Put(EmptyMap, "n1", NOUN_ID_START), Put(EmptyMap, "n1", NOUN_ID_MAX + 1),
     [l \in NounLemmas |-> NOUN_ID_START]}
FileVerbMaps == {EmptyMap, Put(EmptyMap, "v1", VERB_ID_START)}

\* registry contents a file on disk may hold when the first run starts
FileRegistries ==
    {Registry(nn, nv, ns, vs) :
        nn \in FileNounWatermarks, nv \in FileVerbWatermarks,
        ns \in FileNounMaps, vs \in FileVerbMaps}

\* a file on disk: absent, half written, or holding a complete registry
NoFile == [st |-> "absent", data |-> NoRegistry]
PartialFile(r) == [st |-> "partial", data |-> r]
FullFile(r) == [st |-> "full", data |-> r]

validate_registry(r) ==
    /\ \A l \in DOMAIN r.nouns : r.nouns[l] >= NOUN_ID_START /\ r.nouns[l] <= NOUN_ID_MAX
    /\ \A l \in DOMAIN r.verbs : r.verbs[l] >= VERB_ID_START /\ r.verbs[l] <= VERB_ID_MAX
    /\ (DOMAIN r.nouns # {} => r.next_noun_id > MaxOf(Ids(r.nouns)))
    /\ (DOMAIN r.verbs # {} => r.next_verb_id > MaxOf(Ids(r.verbs)))
    /\ Cardinality(Ids(r.nouns)) = Cardinality(DOMAIN r.nouns)
    /\ Cardinality(Ids(r.verbs)) = Cardinality(DOMAIN r.verbs)

deep_copy_registry(r) ==
    [version |-> r.version, next_noun_id |-> r.next_noun_id,
     next_verb_id |-> r.next_verb_id, nouns |-> r.nouns, verbs |-> r.verbs]

\* a load_registry that starts from the fresh registry whatever the file holds
load_registry_ignoring_file(f) ==
    IF f.st = "partial" THEN [ok |-> FALSE, reg |-> NoRegistry]
    ELSE [ok |-> TRUE, reg |-> FreshRegistry]

\* load_registry: the registry returned and whether RegistryError is raised
load_registry(f) ==
    IF f.st = "absent" THEN [ok |-> TRUE, reg |-> FreshRegistry]
    ELSE IF f.st = "partial" THEN [ok |-> FALSE, reg |-> NoRegistry]
    ELSE IF validate_registry(f.data) THEN [ok |-> TRUE, reg |-> f.data]
    ELSE [ok |-> FALSE, reg |-> NoRegistry]

\* a get_noun_lemma_id that advances the watermark by two
get_noun_lemma_id_leaving_gap(r, l) ==
    IF l \in DOMAIN r.nouns
    THEN [out |-> "existing", ret |-> r.nouns[l], reg |-> r]
    ELSE IF r.next_noun_id > NOUN_ID_MAX
    THEN [out |-> "overflow", ret |-> 0, reg |-> r]
    ELSE [out |-> "new", ret |-> r.next_noun_id,
          reg |-> [r EXCEPT !.nouns = Put(r.nouns, l, r.next_noun_id),
                            !.next_noun_id = r.next_noun_id + 2]]

\* a get_noun_lemma_id that assigns the watermark without looking the lemma up
get_noun_lemma_id_always_new(r, l) ==
    IF r.next_noun_id > NOUN_ID_MAX
    THEN [out |-> "overflow", ret |-> 0, reg |-> r]
    ELSE [out |-> "new", ret |-> r.next_noun_id,
          reg |-> [r EXCEPT !.nouns = Put(r.nouns, l, r.next_noun_id),
                            !.next_noun_id = r.next_noun_id + 1]]

\* a get_noun_lemma_id that does not advance the watermark
get_noun_lemma_id_stuck_watermark(r, l) ==
    IF l \in DOMAIN r.nouns
    THEN [out |-> "existing", ret |-> r.nouns[l], reg |-> r]
    ELSE IF r.next_noun_id > NOUN_ID_MAX
    THEN [out |-> "overflow", ret |-> 0, reg |-> r]
    ELSE [out |-> "new", ret |-> r.next_noun_id,
          reg |-> [r EXCEPT !.nouns = Put(r.nouns, l, r.next_noun_id)]]

\* get_noun_lemma_id: the returned ID, the registry afterwards, the outcome
get_noun_lemma_id(r, l) ==
    IF l \in DOMAIN r.nouns
    THEN [out |-> "existing", ret |-> r.nouns[l], reg |-> r]
    ELSE IF r.next_noun_id > NOUN_ID_MAX
    THEN [out |-> "overflow", ret |-> 0, reg |-> r]
    ELSE [out |-> "new", ret |-> r.next_noun_id,
          reg |-> [r EXCEPT !.nouns = Put(r.nouns, l, r.next_noun_id),
                            !.next_noun_id = r.next_noun_id + 1]]

\* a get_verb_lemma_id without the overflow check
get_verb_lemma_id_no_limit(r, l) ==
    IF l \in DOMAIN r.verbs
    THEN [out |-> "existing", ret |-> r.verbs[l], reg |-> r]
    ELSE [out |-> "new", ret |-> r.next_verb_id,
          reg |-> [r EXCEPT !.verbs = Put(r.verbs, l, r.next_verb_id),
                            !.next_verb_id = r.next_verb_id + 1]]

get_verb_lemma_id(r, l) ==
    IF l \in DOMAIN r.verbs
    THEN [out |-> "existing", ret |-> r.verbs[l], reg |-> r]
    ELSE IF r.next_verb_id > VERB_ID_MAX
    THEN [out |-> "overflow", ret |-> 0, reg |-> r]
    ELSE [out |-> "new", ret |-> r.next_verb_id,
          reg |-> [r EXCEPT !.verbs = Put(r.verbs, l, r.next_verb_id),
                            !.next_verb_id = r.next_verb_id + 1]]

\* save_registry, the diff against original_registry (lines 93-104)
NoMappingLost(r, orig) ==
    /\ \A l \in DOMAIN orig.nouns : l \in DOMAIN r.nouns /\ r.nouns[l] = orig.nouns[l]
    /\ \A l \in DOMAIN orig.verbs : l \in DOMAIN r.verbs /\ r.verbs[l] = orig.verbs[l]

(***************************************************************************)
(* FormID codec: extract_nouns_and_verbs.py 161-176 (the same formulas as  *)
(* extraction/forms.py 27-66) and the decoders of extraction/validate_db.py *)
(***************************************************************************)
\* an encoder with the gender and number positions exchanged
compute_declension_swapped(lemma_id, case, gender, number, ending_index) ==
    lemma_id * 10000 + case * 1000 + number * 100 + gender * 10 + ending_index

compute_declension_form_id(lemma_id, case, gender, number, ending_index) ==
    lemma_id * 10000 + case * 1000 + gender * 100 + number * 10 + ending_index

\* A conjugation FormID has ten digits, more than TLC's 32-bit integers hold:
\* it is kept as the pair hi, lo that stands for hi * 100000 + lo, 0 <= lo < 100000,
\* and the arithmetic below is exact on that representation.
Base == 100000
TimesBase(n) == [hi |-> n, lo |-> 0]
BigPlus(x, n) == [hi |-> x.hi + (x.lo + n) \div Base, lo |-> (x.lo + n) % Base]
\* x // Base
BigDivBase(x) == x.hi
\* x % d, for a d that divides Base
BigMod(x, d) == x.lo % d

compute_conjugation_form_id(lemma_id, tense, person, number, reflexive, ending_index) ==
    BigPlus(TimesBase(lemma_id),
            tense * 10000 + person * 1000 + number * 100 + reflexive * 10 + ending_index)

\* a decoder that takes the gender from the number's decimal position
parse_declension_gender_misplaced(form_id) ==
    [lemma_id |-> form_id \div 10000,
     case |-> (form_id % 10000) \div 1000,
     gender |-> (form_id % 100) \div 10,
     number |-> (form_id % 100) \div 10,
     ending_index |-> form_id % 10]

parse_declension_form_id(form_id) ==
    [lemma_id |-> form_id \div 10000,
     case |-> (form_id % 10000) \div 1000,
     gender |-> (form_id % 1000) \div 100,
     number |-> (form_id % 100) \div 10,
     ending_index |-> form_id % 10]

parse_conjugation_form_id(form_id) ==
    [lemma_id |-> BigDivBase(form_id),
     tense |-> BigMod(form_id, 100000) \div 10000,
     person |-> BigMod(form_id, 10000) \div 1000,
     number |-> BigMod(form_id, 1000) \div 100,
     voice |-> BigMod(form_id, 100) \div 10,
     ending_index |-> BigMod(form_id, 10)]

\* x // 10 on the pair representation
BigDiv10(x) == [hi |-> x.hi \div 10, lo |-> (x.hi % 10) * (Base \div 10) + x.lo \div 10]
\* the integer a pair stands for, for pairs small enough
BigToInt(x) == x.hi * Base + x.lo

\* analysis/analyze_corpus_filters.py, parse_declension_form_id: repeated
\* form_id % 10 and form_id //= 10
analysis_parse_declension_form_id(form_id) ==
    LET f1 == form_id \div 10
        f2 == f1 \div 10
        f3 == f2 \div 10
    IN [lemma_id |-> f3 \div 10,
        case |-> f3 % 10,
        gender |-> f2 % 10,
        number |-> f1 % 10,
        ending_id |-> form_id % 10]

\* a decoder that reads the digits in the order of the docstring LLLLLTNVPE
analysis_parse_conjugation_as_documented(form_id) ==
    LET f1 == BigDiv10(form_id)
        f2 == BigDiv10(f1)
        f3 == BigDiv10(f2)
        f4 == BigDiv10(f3)
    IN [lemma_id |-> BigToInt(BigDiv10(f4)),
        tense |-> BigMod(f4, 10),
        person |-> BigMod(f1, 10),
        number |-> BigMod(f3, 10),
        voice |-> BigMod(f2, 10),
        ending_id |-> BigMod(form_id, 10)]

\* analysis/analyze_corpus_filters.py, parse_conjugation_form_id
analysis_parse_conjugation_form_id(form_id) ==
    LET f1 == BigDiv10(form_id)
        f2 == BigDiv10(f1)
        f3 == BigDiv10(f2)
        f4 == BigDiv10(f3)
    IN [lemma_id |-> BigToInt(BigDiv10(f4)),
        tense |-> BigMod(f4, 10),
        person |-> BigMod(f3, 10),
        number |-> BigMod(f2, 10),
        voice |-> BigMod(f1, 10),
        ending_id |-> BigMod(form_id, 10)]

(***************************************************************************)
(* Python string operations the classifiers use.                           *)
(***************************************************************************)
\* needle in hay (substring test)
Contains(needle, hay) ==
    \E i \in 1..(Len(hay) - Len(needle) + 1) : SubSeq(hay, i, i + Len(needle) - 1) = needle

LowerChar(c) ==
    CASE c = "A" -> "a" [] c = "B" -> "b" [] c = "C" -> "c" [] c = "D" -> "d"
      [] c = "E" -> "e" [] c = "F" -> "f" [] c = "G" -> "g" [] c = "H" -> "h"
      [] c = "I" -> "i" [] c = "J" -> "j" [] c = "K" -> "k" [] c = "L" -> "l"
      [] c = "M" -> "m" [] c = "N" -> "n" [] c = "O" -> "o" [] c = "P" -> "p"
      [] c = "Q" -> "q" [] c = "R" -> "r" [] c = "S" -> "s" [] c = "T" -> "t"
      [] c = "U" -> "u" [] c = "V" -> "v" [] c = "W" -> "w" [] c = "X" -> "x"
      [] c = "Y" -> "y" [] c = "Z" -> "z" [] OTHER -> c

\* str.lower()
RECURSIVE lower(_)
lower(s) == IF s = "" THEN "" ELSE LowerChar(SubSeq(s, 1, 1)) \o lower(Tail(s))

\* str.split(): the whitespace-separated tokens
RECURSIVE SplitFrom(_, _, _)
SplitFrom(s, tok, acc) ==
    IF s = "" THEN (IF tok = "" THEN acc ELSE Append(acc, tok))
    ELSE IF SubSeq(s, 1, 1) = " "
         THEN SplitFrom(Tail(s), "", IF tok = "" THEN acc ELSE Append(acc, tok))
         ELSE SplitFrom(Tail(s), tok \o SubSeq(s, 1, 1), acc)

split(s) == SplitFrom(s, "", <<>>)

\* x in parts (list membership)
InList(x, parts) == \E i \in 1..Len(parts) : parts[i] = x

(***************************************************************************)
(* GrammarEnums and the classifiers of extract_nouns_and_verbs.py.         *)
(***************************************************************************)
CASE_NONE == 0
CASE_NOMINATIVE == 1
CASE_ACCUSATIVE == 2
CASE_INSTRUMENTAL == 3
CASE_DATIVE == 4
CASE_ABLATIVE == 5
CASE_GENITIVE == 6
CASE_LOCATIVE == 7
CASE_VOCATIVE == 8
NUMBER_NONE == 0
NUMBER_SINGULAR == 1
NUMBER_PLURAL == 2
GENDER_NONE == 0
GENDER_MASCULINE == 1
GENDER_NEUTER == 2
GENDER_FEMININE == 3
PERSON_NONE == 0
PERSON_FIRST == 1
PERSON_SECOND == 2
PERSON_THIRD == 3
REFLEXIVE_NO == 0
REFLEXIVE_YES == 1
TENSE_NONE == 0
TENSE_PRESENT == 1
TENSE_IMPERATIVE == 2
TENSE_OPTATIVE == 3
TENSE_FUTURE == 4
TENSE_AORIST == 5

\* str.strip(): leading and trailing blanks removed
RECURSIVE lstrip(_)
lstrip(s) == IF s # "" /\ SubSeq(s, 1, 1) = " " THEN lstrip(Tail(s)) ELSE s

RECURSIVE rstrip(_)
rstrip(s) ==
    IF s # "" /\ SubSeq(s, Len(s), Len(s)) = " " THEN rstrip(SubSeq(s, 1, Len(s) - 1))
    ELSE s

strip(s) == rstrip(lstrip(s))

\* str.endswith(suffix)
endswith(s, suffix) ==
    Len(s) >= Len(suffix) /\ SubSeq(s, Len(s) - Len(suffix) + 1, Len(s)) = suffix

\* config.py: pattern.strip().endswith(' pl')
is_plural_only_pattern(pattern) == endswith(strip(pattern), " pl")

pos_to_gender(pos) ==
    LET pos_lower == lower(pos) IN
    IF pos_lower \in {"masc", "masculine"} THEN GENDER_MASCULINE
    ELSE IF pos_lower \in {"fem", "feminine"} THEN GENDER_FEMININE
    ELSE IF pos_lower \in {"nt", "neut", "neuter"} THEN GENDER_NEUTER
    ELSE GENDER_NONE

\* case_abbr_map in its iteration order
case_abbr_map ==
    << <<"nom", CASE_NOMINATIVE>>, <<"acc", CASE_ACCUSATIVE>>,
       <<"instr", CASE_INSTRUMENTAL>>, <<"dat", CASE_DATIVE>>,
       <<"abl", CASE_ABLATIVE>>, <<"gen", CASE_GENITIVE>>,
       <<"loc", CASE_LOCATIVE>>, <<"voc", CASE_VOCATIVE>> >>

\* the value of the first entry of case_abbr_map among the entries hits
\* (positions in the map), CASE_NONE when there is none
\* a lookup that lets the last matching abbreviation of the table win
LastCase(hits) ==
    IF hits = {} THEN CASE_NONE
    ELSE case_abbr_map[CHOOSE i \in hits : \A j \in hits : i >= j][2]

FirstCase(hits) ==
    IF hits = {} THEN CASE_NONE
    ELSE case_abbr_map[CHOOSE i \in hits : \A j \in hits : i <= j][2]

parse_noun_grammar(grammar_str, label, pos) ==
    LET grammar_lower == lower(grammar_str)
        label_lower == lower(label)
        parts == split(grammar_lower)
        gender == IF Contains("masc", grammar_lower) THEN GENDER_MASCULINE
                  ELSE IF Contains("fem", grammar_lower) THEN GENDER_FEMININE
                  ELSE IF Contains("nt", grammar_lower) THEN GENDER_NEUTER
                  ELSE GENDER_NONE
        number == IF InList("sg", parts) \/ Contains("singular", grammar_lower)
                  THEN NUMBER_SINGULAR
                  ELSE IF InList("pl", parts) \/ Contains("plural", grammar_lower)
                  THEN NUMBER_PLURAL
                  ELSE NUMBER_NONE
        in_parts == {i \in 1..Len(case_abbr_map) :
                        InList(case_abbr_map[i][1], parts)}
        in_label == {i \in 1..Len(case_abbr_map) :
                        Contains(case_abbr_map[i][1], label_lower)}
        from_grammar == FirstCase(in_parts)
        case_name == IF from_grammar = CASE_NONE /\ label_lower # ""
                     THEN FirstCase(in_label)
                     ELSE from_grammar
    IN [case_name |-> case_name, number |-> number, gender |-> gender]

parse_verb_grammar(grammar_str, label, pos) ==
    LET grammar_lower == lower(grammar_str)
        parts == split(grammar_lower)
        person == IF Contains("1st", grammar_lower) \/ Contains("first", grammar_lower)
                  THEN PERSON_FIRST
                  ELSE IF Contains("2nd", grammar_lower)
                          \/ Contains("second", grammar_lower)
                  THEN PERSON_SECOND
                  ELSE IF Contains("3rd", grammar_lower)
                          \/ Contains("third", grammar_lower)
                  THEN PERSON_THIRD
                  ELSE PERSON_NONE
        number == IF InList("sg", parts) \/ Contains("singular", grammar_lower)
                  THEN NUMBER_SINGULAR
                  ELSE IF InList("pl", parts) \/ Contains("plural", grammar_lower)
                  THEN NUMBER_PLURAL
                  ELSE NUMBER_NONE
        tense == IF Contains("opt", grammar_lower) THEN TENSE_OPTATIVE
                 ELSE IF Contains("imp", grammar_lower) THEN TENSE_IMPERATIVE
                 ELSE IF Contains("fut", grammar_lower) THEN TENSE_FUTURE
                 ELSE IF Contains("aor", grammar_lower) THEN TENSE_AORIST
                 ELSE IF Contains("pr", grammar_lower) \/ Contains("pres", grammar_lower)
                 THEN TENSE_PRESENT
                 ELSE TENSE_NONE
        reflexive == IF Contains("reflx", grammar_lower) THEN REFLEXIVE_YES
                     ELSE REFLEXIVE_NO
    IN [person |-> person, number |-> number, tense |-> tense,
        reflexive |-> reflexive]

(***************************************************************************)
(* The classifiers of extraction/grammar.py and extraction/html_parser.py. *)
(***************************************************************************)
\* GrammarEnums of extraction/grammar.py, the Gender enum
grammar_GENDER_NONE == 0
grammar_GENDER_MASCULINE == 1
grammar_GENDER_FEMININE == 2
grammar_GENDER_NEUTER == 3

\* extraction/grammar.py, pos_to_gender
grammar_pos_to_gender(pos) ==
    LET pos_lower == lower(pos) IN
    IF pos_lower \in {"masc", "masculine"} THEN grammar_GENDER_MASCULINE
    ELSE IF pos_lower \in {"fem", "feminine"} THEN grammar_GENDER_FEMININE
    ELSE IF pos_lower \in {"nt", "neut", "neuter"} THEN grammar_GENDER_NEUTER
    ELSE grammar_GENDER_NONE

\* extraction/grammar.py, parse_noun_grammar
grammar_parse_noun_grammar(grammar_str, label, pos) ==
    LET grammar_lower == lower(grammar_str)
        label_lower == lower(label)
        parts == split(grammar_lower)
        gender == IF Contains("masc", grammar_lower) THEN grammar_GENDER_MASCULINE
                  ELSE IF Contains("fem", grammar_lower) THEN grammar_GENDER_FEMININE
                  ELSE IF Contains("nt", grammar_lower) THEN grammar_GENDER_NEUTER
                  ELSE grammar_GENDER_NONE
        number == IF InList("sg", parts) \/ Contains("singular", grammar_lower)
                  THEN NUMBER_SINGULAR
                  ELSE IF InList("pl", parts) \/ Contains("plural", grammar_lower)
                  THEN NUMBER_PLURAL
                  ELSE NUMBER_NONE
        in_parts == {i \in 1..Len(case_abbr_map) :
                        InList(case_abbr_map[i][1], parts)}
        in_label == {i \in 1..Len(case_abbr_map) :
                        Contains(case_abbr_map[i][1], label_lower)}
        from_grammar == FirstCase(in_parts)
        case_name == IF from_grammar = CASE_NONE /\ label # ""
                     THEN FirstCase(in_label)
                     ELSE from_grammar
    IN [case_name |-> case_name, number |-> number, gender |-> gender]

\* GENDER_NAMES of extraction/validate_db.py: the integer of each name
GENDER_NAMES == [None |-> 0, Masculine |-> 1, Neuter |-> 2, Feminine |-> 3]

\* html_parser.py, parse_verb_title: tense_map in dictionary order
tense_map == << <<"pr", TENSE_PRESENT>>, <<"imp", TENSE_IMPERATIVE>>,
                <<"opt", TENSE_OPTATIVE>>, <<"fut", TENSE_FUTURE>>,
                <<"aor", TENSE_AORIST>> >>

\* html_parser.py, parse_verb_title
parse_verb_title(title) ==
    LET parts == split(lower(title))
        hits == {i \in 1..Len(tense_map) : InList(tense_map[i][1], parts)}
    IN [tense |-> IF hits = {} THEN TENSE_NONE
                  ELSE tense_map[CHOOSE i \in hits : \A j \in hits : i <= j][2],
        person |-> IF InList("1st", parts) THEN PERSON_FIRST
                   ELSE IF InList("2nd", parts) THEN PERSON_SECOND
                   ELSE IF InList("3rd", parts) THEN PERSON_THIRD
                   ELSE PERSON_NONE,
        number |-> IF InList("sg", parts) THEN NUMBER_SINGULAR
                   ELSE IF InList("pl", parts) THEN NUMBER_PLURAL
                   ELSE NUMBER_NONE,
        reflexive |-> IF InList("reflx", parts) THEN REFLEXIVE_YES ELSE REFLEXIVE_NO]

\* no classifier was called yet
NoGram == [step |-> "none", tokens |-> <<>>, grammar_str |-> "", label |-> "",
           pos |-> "", result |-> <<>>, other |-> <<>>]

(***************************************************************************)
(* InflectionValidator (scripts/extraction/validate_inflections.py).       *)
(* A form is the dict validate_noun / validate_verb read with              *)
(* form.get(key, 0): case_name and number of a noun form; tense, person,   *)
(* number and reflexive of a verb form.                                    *)
(***************************************************************************)
\* lines 65-70: the expected values
EXPECTED_CASES == 1..8
EXPECTED_NUMBERS == {1, 2}
EXPECTED_TENSES == 1..4
EXPECTED_PERSONS == 1..3

\* lines 73-87: value to name
CASE_NAMES == <<"nom", "acc", "instr", "dat", "abl", "gen", "loc", "voc">>
TENSE_NAMES == <<"pr", "imp", "opt", "fut", "aor">>
PERSON_NAMES == <<"1st", "2nd", "3rd">>
NUMBER_NAMES == <<"sg", "pl">>

\* iteration of a Python set of small non-negative integers: ascending
ascending(S) ==
    LET member(i) == i \in S
    IN  SelectSeq([i \in 1..8 |-> i], member)

\* lines 97-99
validator_is_plural_only_pattern(pattern) == endswith(strip(pattern), " pl")

\* f"{case_name}_{number_name}" and f"{tense_name}_{person_name}_{number_name}":
\* the names joined by '_' (no name holds a '_'), kept as the tuple of names
noun_combo_name(case_val, number_val) == <<CASE_NAMES[case_val], NUMBER_NAMES[number_val]>>
verb_combo_name(tense_val, person_val, number_val) ==
    <<TENSE_NAMES[tense_val], PERSON_NAMES[person_val], NUMBER_NAMES[number_val]>>

\* validate_noun 119-159: what the forms realize and what is missing
noun_findings(pattern, forms) ==
    LET found_numbers == {forms[i].number : i \in DOMAIN forms} \ {0}
        found_combos == {<<forms[i].case_name, forms[i].number>> :
                            i \in {j \in DOMAIN forms :
                                      forms[j].case_name > 0 /\ forms[j].number > 0}}
        is_plural_only == validator_is_plural_only_pattern(pattern)
        is_singular_only ==
            2 \notin found_numbers /\ 1 \in found_numbers /\ ~is_plural_only
        expected_numbers == IF is_plural_only THEN {2}
                            ELSE IF is_singular_only THEN {1}
                            ELSE EXPECTED_NUMBERS
        missing(i) == /\ ((i - 1) % 2) + 1 \in expected_numbers
                      /\ <<((i - 1) \div 2) + 1, ((i - 1) % 2) + 1>> \notin found_combos
        slots == SelectSeq([i \in 1..16 |-> i], missing)
    IN  [is_plural_only |-> is_plural_only,
         is_singular_only |-> is_singular_only,
         missing_combos |-> [k \in DOMAIN slots |->
                                noun_combo_name(((slots[k] - 1) \div 2) + 1,
                                                ((slots[k] - 1) % 2) + 1)],
         missing_numbers |-> LET numbers == ascending(expected_numbers \ found_numbers)
                             IN  [k \in DOMAIN numbers |-> NUMBER_NAMES[numbers[k]]]]

\* line 162: "Only record if there are irregularities"
noun_has_irregularities_always(findings) == TRUE

noun_has_irregularities(findings) ==
    findings.missing_combos # <<>> \/ findings.is_plural_only \/ findings.is_singular_only

\* lines 163-171: the NounIrregularity built
NounIrregularity(lemma, pattern, findings, plural_only_matches) ==
    [lemma |-> lemma, pattern |-> pattern,
     is_plural_only |-> findings.is_plural_only,
     is_singular_only |-> findings.is_singular_only,
     missing_cases |-> findings.missing_combos,
     missing_numbers |-> findings.missing_numbers,
     plural_only_matches |-> IF plural_only_matches = "None" THEN <<>>
                             ELSE plural_only_matches]

\* line 227
is_impersonal(found_persons) == found_persons = {3} /\ Cardinality(found_persons) = 1

\* lines 230-241: tense name -> the names of the persons missing in it
defective_persons_of_impersonal_too(persons_by_tense, impersonal) ==
    LET defective == {t \in EXPECTED_TENSES \cap DOMAIN persons_by_tense :
                         /\ EXPECTED_PERSONS \ persons_by_tense[t] # {}
                         /\ persons_by_tense[t] # {}}
    IN  [name \in {TENSE_NAMES[t] : t \in defective} |->
            LET t == CHOOSE t \in defective : TENSE_NAMES[t] = name
                persons == ascending(EXPECTED_PERSONS \ persons_by_tense[t])
            IN  [k \in DOMAIN persons |-> PERSON_NAMES[persons[k]]]]

defective_persons(persons_by_tense, impersonal) ==
    LET defective == {t \in EXPECTED_TENSES \cap DOMAIN persons_by_tense :
                         /\ EXPECTED_PERSONS \ persons_by_tense[t] # {}
                         /\ persons_by_tense[t] # {}
                         /\ ~impersonal}
    IN  [name \in {TENSE_NAMES[t] : t \in defective} |->
            LET t == CHOOSE t \in defective : TENSE_NAMES[t] = name
                persons == ascending(EXPECTED_PERSONS \ persons_by_tense[t])
            IN  [k \in DOMAIN persons |-> PERSON_NAMES[persons[k]]]]

\* validate_verb 185-252: what the forms realize and what is missing
verb_findings(forms) ==
    LET found_tenses == {forms[i].tense : i \in DOMAIN forms} \ {0}
        found_persons == {forms[i].person : i \in DOMAIN forms} \ {0}
        with_person == {i \in DOMAIN forms : forms[i].person > 0 /\ forms[i].tense > 0}
        persons_by_tense ==
            [t \in {forms[i].tense : i \in with_person} |->
                {forms[i].person : i \in {j \in with_person : forms[j].tense = t}}]
        complete == {i \in DOMAIN forms :
                        forms[i].tense > 0 /\ forms[i].person > 0 /\ forms[i].number > 0}
        found_combos_active ==
            {<<forms[i].tense, forms[i].person, forms[i].number>> :
                i \in {j \in complete : forms[j].reflexive # 1}}
        impersonal == is_impersonal(found_persons)
        tense_of(i) == ((i - 1) \div 6) + 1
        person_of(i) == (((i - 1) \div 2) % 3) + 1
        number_of(i) == ((i - 1) % 2) + 1
        missing(i) == <<tense_of(i), person_of(i), number_of(i)>> \notin found_combos_active
        slots == SelectSeq([i \in 1..24 |-> i], missing)
        unusual == ascending(found_tenses \cap {5})
        absent == ascending(EXPECTED_TENSES \ found_tenses)
    IN  [unusual_tenses |-> [k \in DOMAIN unusual |-> TENSE_NAMES[unusual[k]]],
         missing_tenses |-> [k \in DOMAIN absent |-> TENSE_NAMES[absent[k]]],
         incomplete_conjugations |->
            [k \in DOMAIN slots |->
                verb_combo_name(tense_of(slots[k]), person_of(slots[k]), number_of(slots[k]))],
         is_impersonal |-> impersonal,
         defective_persons |-> defective_persons(persons_by_tense, impersonal),
         has_reflexive |-> \E i \in complete : forms[i].reflexive = 1]

\* line 255: "Only record if there are irregularities"
verb_has_irregularities(findings) ==
    \/ findings.missing_tenses # <<>>
    \/ findings.unusual_tenses # <<>>
    \/ findings.incomplete_conjugations # <<>>
    \/ findings.is_impersonal
    \/ DOMAIN findings.defective_persons # {}

\* lines 256-265: the VerbIrregularity built
VerbIrregularity(lemma, pattern, findings) ==
    [lemma |-> lemma, pattern |-> pattern,
     unusual_tenses |-> findings.unusual_tenses,
     missing_tenses |-> findings.missing_tenses,
     incomplete_conjugations |-> findings.incomplete_conjugations,
     is_impersonal |-> findings.is_impersonal,
     defective_persons |-> findings.defective_persons,
     has_reflexive |-> findings.has_reflexive]

\* lines 89-95: InflectionValidator(); no call was made yet
NoValidator ==
    [noun_irregularities |-> <<>>, verb_irregularities |-> <<>>,
     noun_count |-> 0, verb_count |-> 0,
     last |-> [kind |-> "none", lemma |-> "", pattern |-> "", forms |-> <<>>]]

(***************************************************************************)
(* Template expansion: NounVerbExtractor.parse_inflection_template.        *)
(* A template is a list of rows, a row a list of cells; a cell is a JSON   *)
(* list of strings, a bare string, or empty (None, "", []).                *)
(***************************************************************************)
ListCell(items) == [kind |-> "list", items |-> items]
StrCell(str) == [kind |-> "str", items |-> <<str>>]
NoCell == [kind |-> "none", items |-> <<>>]

\* Python truthiness of a cell
Truthy(c) ==
    \/ c.kind = "list" /\ Len(c.items) > 0
    \/ c.kind = "str" /\ c.items[1] # ""

\* clean_stem: re.sub(r"[!*]", "", stem)
RECURSIVE clean_stem(_)
clean_stem(stem) ==
    IF stem = "" THEN ""
    ELSE IF SubSeq(stem, 1, 1) \in {"!", "*"} THEN clean_stem(Tail(stem))
    ELSE SubSeq(stem, 1, 1) \o clean_stem(Tail(stem))

NoForms == [forms |-> <<>>, total_generated |-> 0, not_in_corpus |-> 0]

\* a loop body that counts a form as not in the corpus whatever its flag
AppendedAllTheoretical(form_data, rest) ==
    [forms |-> <<form_data>> \o rest.forms,
     total_generated |-> rest.total_generated + 1,
     not_in_corpus |-> rest.not_in_corpus + 1]

\* lines 736-755 for one ending: total_generated += 1, not_in_corpus += 1 when
\* in_corpus is 0, forms.append(form_data); rest is what the later endings,
\* columns and rows add
Appended(form_data, rest) ==
    [forms |-> <<form_data>> \o rest.forms,
     total_generated |-> rest.total_generated + 1,
     not_in_corpus |-> rest.not_in_corpus + (IF form_data.in_corpus = 0 THEN 1 ELSE 0)]

\* a loop that starts its list again at every cell
ThenLastOnly(first, rest) ==
    IF rest.forms # <<>> THEN rest ELSE first

\* the forms and counts of one part of the template followed by the next
Then(first, rest) ==
    [forms |-> first.forms \o rest.forms,
     total_generated |-> first.total_generated + rest.total_generated,
     not_in_corpus |-> first.not_in_corpus + rest.not_in_corpus]

\* lines 733-755: the loop over the endings of one cell; the forms appended
\* and the counts added from position k (ending_index k - 1) on
RECURSIVE EndingsLoop(_, _, _, _, _, _)
EndingsLoop(endings, k, grammar_info, grammar_label, word, ctx) ==
    IF k > Len(endings) THEN NoForms
    ELSE LET ending == endings[k] IN
         IF ending = ""
         THEN EndingsLoop(endings, k + 1, grammar_info, grammar_label, word, ctx)
         ELSE LET inflected_form == IF ending # "-" THEN ctx.stem \o ending ELSE ctx.stem
                  in_corpus == IF inflected_form \in ctx.corpus THEN 1 ELSE 0
                  parsed_grammar ==
                      IF ctx.word_type = "noun"
                      THEN parse_noun_grammar(grammar_info, grammar_label, word.pos)
                      ELSE parse_verb_grammar(grammar_info, grammar_label, word.pos)
                  form_data ==
                      IF ctx.word_type = "noun"
                      THEN [form |-> inflected_form, in_corpus |-> in_corpus,
                            ending_index |-> k - 1,
                            case_name |-> parsed_grammar.case_name,
                            number |-> parsed_grammar.number,
                            gender |-> parsed_grammar.gender]
                      ELSE [form |-> inflected_form, in_corpus |-> in_corpus,
                            ending_index |-> k - 1,
                            person |-> parsed_grammar.person,
                            number |-> parsed_grammar.number,
                            tense |-> parsed_grammar.tense,
                            reflexive |-> parsed_grammar.reflexive]
              IN CHOOSE result \in
                    {Appended(this, rest) :
                        this \in {form_data},
                        rest \in {EndingsLoop(endings, k + 1, grammar_info, grammar_label,
                                              word, ctx)}} : TRUE

\* lines 715-757: the loop over the column pairs of one row; col_idx is the
\* Python index, row[col_idx + 1] the cell here; the forms appended and the
\* counts added from column col_idx on
RECURSIVE ColumnsLoop(_, _, _, _, _)
ColumnsLoop(row, col_idx, grammar_label, word, ctx) ==
    IF ~(col_idx < Len(row)) THEN NoForms
    ELSE IF ~Truthy(row[col_idx + 1])
         THEN ColumnsLoop(row, col_idx + 2, grammar_label, word, ctx)
         ELSE LET endings == row[col_idx + 1].items
                  grammar_info ==
                      IF col_idx + 1 < Len(row) /\ Truthy(row[col_idx + 2])
                      THEN row[col_idx + 2].items[1]
                      ELSE ""
              IN CHOOSE result \in
                    {Then(first, rest) :
                        first \in {EndingsLoop(endings, 1, grammar_info, grammar_label,
                                               word, ctx)},
                        rest \in {ColumnsLoop(row, col_idx + 2, grammar_label, word,
                                              ctx)}} : TRUE

\* lines 708-712: the loop over the rows, the header row skipped; the forms
\* appended and the counts added from row n on
RECURSIVE RowsLoop(_, _, _, _)
RowsLoop(template_data, n, word, ctx) ==
    IF n > Len(template_data) THEN NoForms
    ELSE LET row == template_data[n] IN
         IF Len(row) < 2 THEN RowsLoop(template_data, n + 1, word, ctx)
         ELSE LET grammar_label ==
                      IF ~Truthy(row[1]) THEN ""
                      ELSE IF row[1].kind = "list" THEN row[1].items[1]
                      ELSE SubSeq(row[1].items[1], 1, 1)
              IN CHOOSE result \in
                    {Then(first, rest) :
                        first \in {ColumnsLoop(row, 1, grammar_label, word, ctx)},
                        rest \in {RowsLoop(template_data, n + 1, word, ctx)}} : TRUE

\* word.it: "none" (no template row), "empty" (no data), "bad" (data that is
\* not JSON) or "ok" with the decoded rows
parse_inflection_template(word, word_type, corpus) ==
    IF word.it.kind # "ok" THEN NoForms
    ELSE RowsLoop(word.it.data, 2, word,
                  [stem |-> clean_stem(word.stem), word_type |-> word_type,
                   corpus |-> corpus])

(***************************************************************************)
(* PluralOnlyDeduplicator (scripts/extraction/plural_dedup.py).            *)
(***************************************************************************)
\* row[0][0] if row[0] and isinstance(row[0], list) else (row[0] or "")
row_label(row) == IF Truthy(row[1]) THEN row[1].items[1] ELSE ""

\* "in comps" in str(row_label).lower()
IsCompsRow(row) == Contains("in comps", lower(row_label(row)))

\* the Python column indexes range(1, len(row), 2)
OddColumns(row) == {c \in 1..(Len(row) - 1) : c % 2 = 1}

\* the forms stem + ending of the endings of one cell, "" and "-" left out
CellForms(stem, cell) ==
    {stem \o cell.items[k] : k \in {i \in 1..Len(cell.items) : cell.items[i] \notin {"", "-"}}}

\* _extract_gender_from_pattern
extract_gender_from_pattern(pattern) ==
    LET pattern_lower == lower(pattern)
    IN IF Contains("masc", pattern_lower) THEN "masc"
       ELSE IF Contains("fem", pattern_lower) THEN "fem"
       ELSE IF Contains("nt", pattern_lower) THEN "nt"
       ELSE ""

\* _get_plural_forms_from_template: the forms of the cells whose grammar
\* descriptor has the token "pl", in rows of at least four cells, the
\* "in comps" rows skipped
get_plural_forms_from_template(word) ==
    IF word.it.kind # "ok" THEN {}
    ELSE LET template_data == word.it.data
             stem == clean_stem(word.stem)
             RowForms(row) ==
                 UNION {CellForms(stem, row[c + 1]) :
                          c \in {d \in OddColumns(row) :
                                   /\ ~(d + 1 >= Len(row))
                                   /\ Truthy(row[d + 2])
                                   /\ InList("pl", split(lower(row[d + 2].items[1])))}}
         IN UNION {RowForms(template_data[n]) :
                     n \in {m \in 2..Len(template_data) :
                              /\ ~(Len(template_data[m]) < 4)
                              /\ ~IsCompsRow(template_data[m])}}

\* _get_all_forms_from_template: the forms of every endings cell, the
\* "in comps" rows skipped
get_all_forms_from_template(word) ==
    IF word.it.kind # "ok" THEN {}
    ELSE LET template_data == word.it.data
             stem == clean_stem(word.stem)
             RowForms(row) ==
                 UNION {CellForms(stem, row[c + 1]) :
                          c \in {d \in OddColumns(row) : Truthy(row[d + 1])}}
         IN UNION {RowForms(template_data[n]) :
                     n \in {m \in 2..Len(template_data) : ~IsCompsRow(template_data[m])}}

\* build_singular_index, lines 188-210: the entries appended for the words
\* from position k on, in order; an entry is (lemma_1, pattern, plural_forms)
\* under its stem
RECURSIVE IndexFrom(_, _)
IndexFrom(all_nouns, k) ==
    IF k > Len(all_nouns) THEN <<>>
    ELSE LET word == all_nouns[k] IN
         IF \/ is_plural_only_pattern(word.pattern)
            \/ extract_gender_from_pattern(word.pattern) = ""
            \/ get_plural_forms_from_template(word) = {}
         THEN IndexFrom(all_nouns, k + 1)
         ELSE <<[stem |-> clean_stem(word.stem), lemma_1 |-> word.lemma_1,
                 pattern |-> word.pattern,
                 plural_forms |-> get_plural_forms_from_template(word)]>>
              \o IndexFrom(all_nouns, k + 1)

\* self._singular_index.get(stem, []): the entries of a stem, in order
Candidates(index, stem) ==
    LET Same(e) == e.stem = stem IN SelectSeq(index, Same)

\* a match_ratio is the fraction n / d
Ratio(n, d) == [n |-> n, d |-> d]
Greater(a, b) == a.n * b.d > b.n * a.d
Half == Ratio(1, 2)

\* PluralMatchResult with its defaults
PluralMatchResult(is_redundant, plural_only_forms) ==
    [is_redundant |-> is_redundant, matched_lemma |-> "None", matched_pattern |-> "None",
     match_ratio |-> Ratio(0, 1), plural_only_forms |-> plural_only_forms,
     matching_forms |-> 0]

\* a loop that takes a match of one half as sufficient
RECURSIVE CandidatesLoopFromHalf(_, _, _, _)
CandidatesLoopFromHalf(candidates, i, best_match, plural_only_forms) ==
    IF i > Len(candidates) THEN best_match
    ELSE LET sing_plural_forms == candidates[i].plural_forms
             matching == plural_only_forms \cap sing_plural_forms
             match_ratio == Ratio(Cardinality(matching), Cardinality(plural_only_forms))
             sufficient == ~Greater(Half, match_ratio)
             better ==
                 IF Greater(match_ratio, best_match.match_ratio)
                 THEN [is_redundant |-> sufficient,
                       matched_lemma |-> candidates[i].lemma_1,
                       matched_pattern |-> candidates[i].pattern,
                       match_ratio |-> match_ratio,
                       plural_only_forms |-> Cardinality(plural_only_forms),
                       matching_forms |-> Cardinality(matching)]
                 ELSE best_match
         IN IF sing_plural_forms = {}
            THEN CandidatesLoopFromHalf(candidates, i + 1, best_match, plural_only_forms)
            ELSE IF sufficient THEN better
            ELSE CandidatesLoopFromHalf(candidates, i + 1, better, plural_only_forms)

\* check_redundant, lines 244-265: the loop over the candidates from position
\* i on, with its early exit
RECURSIVE CandidatesLoop(_, _, _, _)
CandidatesLoop(candidates, i, best_match, plural_only_forms) ==
    IF i > Len(candidates) THEN best_match
    ELSE LET sing_plural_forms == candidates[i].plural_forms
             matching == plural_only_forms \cap sing_plural_forms
             match_ratio == Ratio(Cardinality(matching), Cardinality(plural_only_forms))
             better ==
                 IF Greater(match_ratio, best_match.match_ratio)
                 THEN [is_redundant |-> Greater(match_ratio, Half),
                       matched_lemma |-> candidates[i].lemma_1,
                       matched_pattern |-> candidates[i].pattern,
                       match_ratio |-> match_ratio,
                       plural_only_forms |-> Cardinality(plural_only_forms),
                       matching_forms |-> Cardinality(matching)]
                 ELSE best_match
         IN IF sing_plural_forms = {}
            THEN CandidatesLoop(candidates, i + 1, best_match, plural_only_forms)
            ELSE IF Greater(match_ratio, Half) THEN better
            ELSE CandidatesLoop(candidates, i + 1, better, plural_only_forms)

\* check_redundant, lines 225-265: the PluralMatchResult it returns
BestMatch(word, singular_index) ==
    IF ~is_plural_only_pattern(word.pattern) THEN PluralMatchResult(FALSE, 0)
    ELSE LET plural_only_forms == get_all_forms_from_template(word) IN
         IF plural_only_forms = {} THEN PluralMatchResult(FALSE, 0)
         ELSE CandidatesLoop(Candidates(singular_index, clean_stem(word.stem)), 1,
                             PluralMatchResult(FALSE, Cardinality(plural_only_forms)),
                             plural_only_forms)

(***************************************************************************)
(* The headwords and the attested word set the model draws from.           *)
(***************************************************************************)
Template(body) == [kind |-> "ok", data |-> <<<<>>>> \o body]

\* a regular masculine noun, two alternative nominative plural endings
BuddhaWord ==
    [lemma_1 |-> "buddha 1", pos |-> "masc", stem |-> "buddh", pattern |-> "a masc",
     it |-> Template(<<
        <<ListCell(<<"nom">>), ListCell(<<"o">>), ListCell(<<"masc nom sg">>),
          ListCell(<<"a", "ase">>), ListCell(<<"masc nom pl">>)>>,
        <<ListCell(<<"acc">>), ListCell(<<"am">>), ListCell(<<"masc acc sg">>),
          ListCell(<<"e">>), ListCell(<<"masc acc pl">>)>> >>)]

\* descriptors without a gender token, the case taken from the row label,
\* a bare-stem ending and a marker character in the stem
RajaWord ==
    [lemma_1 |-> "raja", pos |-> "masc", stem |-> "raj!a", pattern |-> "raja masc",
     it |-> Template(<<
        <<ListCell(<<"Nom">>), ListCell(<<"-">>), ListCell(<<"sg">>),
          StrCell("no"), StrCell("pl")>> >>)]

\* one cell with ten alternative endings
TenWord ==
    [lemma_1 |-> "xa", pos |-> "fem", stem |-> "x", pattern |-> "a fem",
     it |-> Template(<<
        <<ListCell(<<"nom">>),
          ListCell(<<"a", "b", "c", "d", "e", "f", "g", "h", "i", "j">>),
          ListCell(<<"fem nom sg">>)>> >>)]

\* a plural-only noun (pattern ends in " pl"): every cell is plural
KusalaPlWord ==
    [lemma_1 |-> "kusala 2", pos |-> "masc", stem |-> "kusal", pattern |-> "a masc pl",
     it |-> Template(<<
        <<ListCell(<<"nom">>), ListCell(<<"a">>), ListCell(<<"masc nom pl">>)>>,
        <<ListCell(<<"acc">>), ListCell(<<"e">>), ListCell(<<"masc acc pl">>)>>,
        <<ListCell(<<"instr">>), ListCell(<<"ehi">>), ListCell(<<"masc instr pl">>)>> >>)]

\* an ordinary noun whose template has no nominative singular cell
PhalaWord ==
    [lemma_1 |-> "phala", pos |-> "nt", stem |-> "phal", pattern |-> "a nt",
     it |-> Template(<<
        <<ListCell(<<"acc">>), ListCell(<<"am">>), ListCell(<<"nt acc sg">>),
          ListCell(<<"ani">>), ListCell(<<"nt acc pl">>)>> >>)]

\* a noun whose template has an "in comps" row
DhammaWord ==
    [lemma_1 |-> "dhamma 1", pos |-> "masc", stem |-> "dhamm", pattern |-> "a masc",
     it |-> Template(<<
        <<ListCell(<<"nom">>), ListCell(<<"o">>), ListCell(<<"masc nom sg">>),
          ListCell(<<"a">>), ListCell(<<"masc nom pl">>)>>,
        <<ListCell(<<"in comps">>), ListCell(<<"a">>), ListCell(<<"in comps">>)>> >>)]

\* a row without cells, an empty cell, an empty ending, a bare-stem ending
\* and a last endings cell without a descriptor
SparseWord ==
    [lemma_1 |-> "samsa", pos |-> "masc", stem |-> "sams", pattern |-> "a masc",
     it |-> Template(<<
        <<ListCell(<<"nom">>)>>,
        <<ListCell(<<"acc">>), NoCell, ListCell(<<"masc acc sg">>),
          ListCell(<<"", "e", "-">>), ListCell(<<"masc acc pl">>), StrCell("u")>> >>)]

\* a noun whose template data is not JSON
BrokenWord ==
    [lemma_1 |-> "broken", pos |-> "masc", stem |-> "brok", pattern |-> "a masc",
     it |-> [kind |-> "bad", data |-> <<>>]]

\* a plural-only noun with two forms and an "in comps" row
KusalaPl2Word ==
    [lemma_1 |-> "kusala 4", pos |-> "nt", stem |-> "kusal", pattern |-> "a nt pl",
     it |-> Template(<<
        <<ListCell(<<"nom">>), ListCell(<<"a">>), ListCell(<<"nt nom pl">>)>>,
        <<ListCell(<<"acc">>), ListCell(<<"e">>), ListCell(<<"nt acc pl">>)>>,
        <<ListCell(<<"in comps">>), ListCell(<<"u">>), ListCell(<<"in comps">>)>> >>)]

\* a plural-only noun without template data
BrokenPlWord ==
    [lemma_1 |-> "broken 2", pos |-> "masc", stem |-> "kusal", pattern |-> "a masc pl",
     it |-> [kind |-> "empty", data |-> <<>>]]

\* ordinary nouns of the stem "kusal": their plural cells hold all, two, one
\* and none of the forms kusala, kusale, kusalehi
KusalaMascWord ==
    [lemma_1 |-> "kusala 3", pos |-> "masc", stem |-> "kusal", pattern |-> "a masc",
     it |-> Template(<<
        <<ListCell(<<"nom">>), ListCell(<<"o">>), ListCell(<<"masc nom sg">>),
          ListCell(<<"a">>), ListCell(<<"masc nom pl">>)>>,
        <<ListCell(<<"acc">>), ListCell(<<"am">>), ListCell(<<"masc acc sg">>),
          ListCell(<<"e">>), ListCell(<<"masc acc pl">>)>>,
        <<ListCell(<<"instr">>), ListCell(<<"ena">>), ListCell(<<"masc instr sg">>),
          ListCell(<<"ehi">>), ListCell(<<"masc instr pl">>)>> >>)]

KusalaNtWord ==
    [lemma_1 |-> "kusala 1", pos |-> "nt", stem |-> "kusal", pattern |-> "a nt",
     it |-> Template(<<
        <<ListCell(<<"nom">>), ListCell(<<"am">>), ListCell(<<"nt nom sg">>),
          ListCell(<<"ani", "a">>), ListCell(<<"nt nom pl">>)>>,
        <<ListCell(<<"acc">>), ListCell(<<"am">>), ListCell(<<"nt acc sg">>),
          ListCell(<<"ani", "e">>), ListCell(<<"nt acc pl">>)>>,
        <<ListCell(<<"in comps">>), ListCell(<<"a">>), ListCell(<<"in comps">>),
          ListCell(<<"ehi">>), ListCell(<<"nt instr pl">>)>> >>)]

KusalaFemWord ==
    [lemma_1 |-> "kusala 5", pos |-> "fem", stem |-> "kusal", pattern |-> "a fem",
     it |-> Template(<<
        <<ListCell(<<"nom">>), ListCell(<<"-">>), ListCell(<<"fem nom sg">>),
          ListCell(<<"a", "ayo">>), StrCell("fem nom PL")>> >>)]

KusalaOtherWord ==
    [lemma_1 |-> "kusali", pos |-> "masc", stem |-> "kusal", pattern |-> "i masc",
     it |-> Template(<<
        <<ListCell(<<"nom">>), ListCell(<<"i">>), ListCell(<<"masc nom sg">>),
          ListCell(<<"ino">>), ListCell(<<"masc nom pl">>)>> >>)]

\* a pattern that names no gender
KusalaBareWord ==
    [lemma_1 |-> "kusala 6", pos |-> "masc", stem |-> "kusal", pattern |-> "a",
     it |-> Template(<<
        <<ListCell(<<"nom">>), ListCell(<<"o">>), ListCell(<<"nom sg">>),
          ListCell(<<"a", "e", "ehi">>), ListCell(<<"nom pl">>)>> >>)]

GacchatiWord ==
    [lemma_1 |-> "gacchati", pos |-> "pr", stem |-> "gacch", pattern |-> "ati pr",
     it |-> Template(<<
        <<ListCell(<<"pr 3rd">>), ListCell(<<"ati">>), ListCell(<<"pr 3rd sg">>),
          ListCell(<<"anti", "are">>), ListCell(<<"pr 3rd pl">>),
          ListCell(<<"ate">>), ListCell(<<"reflx pr 3rd sg">>)>> >>)]

\* one cell with ten alternative endings, a descriptor without tense
TenVerb ==
    [lemma_1 |-> "yati", pos |-> "pr", stem |-> "y", pattern |-> "ati pr",
     it |-> Template(<<
        <<ListCell(<<"opt 1st">>),
          ListCell(<<"a", "b", "c", "d", "e", "f", "g", "h", "i", "j">>),
          ListCell(<<"opt 1st pl">>)>> >>)]

\* a verb without a template row
BrokenVerb ==
    [lemma_1 |-> "broken 3", pos |-> "pr", stem |-> "brok", pattern |-> "ati pr",
     it |-> [kind |-> "none", data |-> <<>>]]

BasicCorpus == {"buddho", "buddha", "buddham", "gacchati", "gacchanti"}
WideCorpus == BasicCorpus \cup {"raja", "rajano", "buddhase", "xa", "xi", "xj",
                                "gacchate", "ya", "yj", "kusala", "kusale", "phalam",
                                "dhammo", "dhamma", "samse"}

Corpora == {BasicCorpus, WideCorpus}
AllNounWords == {BuddhaWord, RajaWord, TenWord, KusalaPlWord, PhalaWord, DhammaWord,
                 BrokenWord, BrokenPlWord, SparseWord}
AllVerbWords == {GacchatiWord, TenVerb, BrokenVerb}

NounWords(p) == IF p = "wide" THEN AllNounWords ELSE {BuddhaWord}
VerbWords(p) == IF p = "wide" THEN AllVerbWords ELSE {GacchatiWord}

\* parse_inflection_template tabulated over the headwords and word sets above
NounTemplateForms ==
    [w \in AllNounWords, c \in Corpora |-> parse_inflection_template(w, "noun", c)]
VerbTemplateForms ==
    [w \in AllVerbWords, c \in Corpora |-> parse_inflection_template(w, "verb", c)]

(***************************************************************************)
(* The output database (sqlite): committed content and the open            *)
(* transaction of the connection extract_and_save inserts on.              *)
(***************************************************************************)
EmptyTables == [nouns |-> {}, verbs |-> {}, decl |-> {}, conj |-> {}]

\* the database file: gen is the run whose create_schema made it (0: older)
Database(e, g, t) == [exists |-> e, gen |-> g, tables |-> t]

NoCall == [op |-> "none", lemma |-> "", out |-> "none", ret |-> 0]
Call(op, l, g) == [op |-> op, lemma |-> l, out |-> g.out, ret |-> g.ret]

\* the codec has not been used
NoCodec == [kind |-> "none", step |-> "none", args |-> <<>>, form_id |-> 0, parsed |-> <<>>]

\* the deduplicator has not been used
NoDedup == [step |-> "none", all_nouns |-> <<>>, word |-> <<>>, singular_index |-> <<>>,
            result |-> <<>>, redundant_count |-> 0, true_plural_only_count |-> 0]

\* no load_registry call and no completed save_registry call yet
NoIo == [load_registry |-> 0, save_registry |-> 0]

NoRow == [kind |-> "none", lemma_id |-> 0, gender |-> 0, pattern |-> "", word |-> <<>>,
          forms |-> <<>>,
          stored |-> <<>>]

ZeroStats ==
    [total_declensions |-> 0, nouns_processed |-> 0, nouns_discarded |-> <<>>,
     total_noun_forms_generated |-> 0, total_noun_forms_filtered |-> 0,
     total_conjugations |-> 0, verbs_processed |-> 0,
     total_verb_forms_generated |-> 0, total_verb_forms_filtered |-> 0]

\* an insert loop that counts every execute, also the ones that raised
InsertAllCounted(table, ids) ==
    [table |-> table \cup {ids[k] : k \in 1..Len(ids)}, count |-> Len(ids)]

\* cursor.execute("INSERT ...") for each ID in turn inside try/except
\* sqlite3.IntegrityError: an ID already in the table (from an earlier row or
\* earlier in ids) is skipped and not counted, any other is added and counted
InsertAll(table, ids) ==
    LET new == {ids[k] : k \in 1..Len(ids)} \ table
    IN [table |-> table \cup new, count |-> Cardinality(new)]

\* an insert loop without the in_corpus test
AttestedAll(forms) == forms

\* the forms of a list that are in the corpus, in order
RECURSIVE Attested(_)
Attested(forms) ==
    IF forms = <<>> THEN <<>>
    ELSE IF Head(forms).in_corpus = 1 THEN <<Head(forms)>> \o Attested(Tail(forms))
    ELSE Attested(Tail(forms))

\* lines 943-949: the FormID extract_and_save computes for a noun form
DeclensionIdOf(lemma_id, gender, form) ==
    compute_declension_form_id(lemma_id, form.case_name, gender, form.number,
                               form.ending_index + 1)

\* lines 1009-1016: the FormID extract_and_save computes for a verb form
ConjugationIdOf(lemma_id, form) ==
    compute_conjugation_form_id(lemma_id, form.tense, form.person, form.number,
                                form.reflexive, form.ending_index + 1)

Ended == {"idle", "done", "failed", "crashed", "declined"}

\* the state before the first run; the inputs differ between specifications
InitWith(files, p, corpus) ==
    /\ file \in files
    /\ backup = NoFile
    /\ tmp = NoFile
    /\ registry = NoRegistry
    /\ original_registry = NoRegistry
    /\ pc = "idle"
    /\ mode = "none"
    /\ runs = 0
    /\ rows = 0
    /\ seen = {}
    /\ call = NoCall
    /\ cur = NoRow
    /\ stats = ZeroStats
    /\ err = "none"
    /\ db = Database(FALSE, 0, EmptyTables)
    /\ txn = EmptyTables
    /\ pool = p
    /\ headwords = <<>>
    /\ gram = NoGram
    /\ validator = NoValidator
    /\ all_tipitaka_words = corpus
    /\ file0 = file
    /\ db0 = db
    /\ allKnown = TRUE
    /\ codec = NoCodec
    /\ dedup = NoDedup
    /\ io = NoIo

\* any registry file on disk, the basic headwords
Init == InitWith({NoFile} \cup {FullFile(r) : r \in FileRegistries}, "basic", BasicCorpus)

\* what every run start resets: a new process, nothing in memory
NewProcess(m) ==
    /\ pc \in Ended
    /\ runs < MaxRuns
    /\ runs' = runs + 1
    /\ mode' = m
    /\ rows' = 0
    /\ seen' = {}
    /\ call' = NoCall
    /\ cur' = NoRow
    /\ stats' = ZeroStats
    /\ txn' = EmptyTables
    /\ file0' = file
    /\ db0' = db
    /\ allKnown' = TRUE
    /\ UNCHANGED <<file, backup, tmp, db, pool, headwords, gram, validator, all_tipitaka_words, codec, dedup>>

\* the run ends with RegistryError: the exception ends the process, the
\* open sqlite transaction is never committed
Raise ==
    /\ pc' = "failed"
    /\ err' = "RegistryError"
    /\ txn' = EmptyTables

\* populate_all_lemmas_to_registry, lines 199-207: the registry already holds
\* lemmas and the operator does not answer "yes"
PopulateDeclined ==
    /\ NewProcess("populate")
    /\ file.st = "full"
    /\ DOMAIN file.data.nouns # {} \/ DOMAIN file.data.verbs # {}
    /\ pc' = "declined"
    /\ err' = "none"
    /\ io' = NoIo
    /\ registry' = NoRegistry
    /\ original_registry' = NoRegistry

\* load_registry followed by deep_copy_registry, the first statements of
\* populate_all_lemmas_to_registry (209-210) and extract_and_save (880-881)
Load(m) ==
    /\ NewProcess(m)
    /\ io' = [NoIo EXCEPT !.load_registry = 1]
    /\ LET L == load_registry(file) IN
        IF L.ok
        THEN /\ registry' = L.reg
             /\ original_registry' = deep_copy_registry(L.reg)
             /\ pc' = IF m = "extract" THEN "schema" ELSE "nouns"
             /\ err' = "none"
        ELSE /\ registry' = NoRegistry
             /\ original_registry' = NoRegistry
             /\ pc' = "failed"
             /\ err' = "RegistryError"

\* create_schema: delete the old database, create the empty tables, commit
create_schema ==
    /\ pc = "schema"
    /\ db' = Database(TRUE, runs, EmptyTables)
    /\ pc' = "nouns"
    /\ UNCHANGED <<file, backup, tmp, registry, original_registry, mode, runs, rows, seen,
                   call, cur, stats, err, txn, pool, headwords, gram, validator, all_tipitaka_words, codec, dedup, io, file0, db0,
                   allKnown>>

\* populate_all_lemmas_to_registry, lines 269-272: one lemma of noun_lemmas
PopulateNoun(l) ==
    /\ pc = "nouns" /\ mode = "populate"
    /\ rows < MaxRows /\ l \notin seen
    /\ rows' = rows + 1
    /\ seen' = seen \cup {l}
    /\ allKnown' = (allKnown /\ l \in DOMAIN original_registry.nouns)
    /\ IF l \notin DOMAIN registry.nouns
       THEN LET g == get_noun_lemma_id(registry, l) IN
            /\ call' = Call("get_noun", l, g)
            /\ registry' = g.reg
            /\ IF g.out = "overflow" THEN Raise ELSE UNCHANGED <<pc, err, txn>>
       ELSE /\ call' = NoCall
            /\ UNCHANGED <<registry, pc, err, txn>>
    /\ UNCHANGED <<file, backup, tmp, original_registry, mode, runs, cur, stats, db,
                   pool, headwords, gram, validator, all_tipitaka_words, codec, dedup, io, file0, db0>>

\* populate_all_lemmas_to_registry, lines 276-279: one lemma of verb_lemmas
PopulateVerb(l) ==
    /\ pc = "verbs" /\ mode = "populate"
    /\ rows < MaxRows /\ l \notin seen
    /\ rows' = rows + 1
    /\ seen' = seen \cup {l}
    /\ allKnown' = (allKnown /\ l \in DOMAIN original_registry.verbs)
    /\ IF l \notin DOMAIN registry.verbs
       THEN LET g == get_verb_lemma_id(registry, l) IN
            /\ call' = Call("get_verb", l, g)
            /\ registry' = g.reg
            /\ IF g.out = "overflow" THEN Raise ELSE UNCHANGED <<pc, err, txn>>
       ELSE /\ call' = NoCall
            /\ UNCHANGED <<registry, pc, err, txn>>
    /\ UNCHANGED <<file, backup, tmp, original_registry, mode, runs, cur, stats, db,
                   pool, headwords, gram, validator, all_tipitaka_words, codec, dedup, io, file0, db0>>

\* extract_and_save, lines 902-962: one iteration of the noun loop, for the
\* headword w with citation form l
ExtractNoun(l, w) ==
    /\ pc = "nouns" /\ mode = "extract"
    /\ rows < MaxRows
    /\ rows' = rows + 1
    /\ allKnown' = (allKnown /\ l \in DOMAIN original_registry.nouns)
    /\ \E parsed \in {NounTemplateForms[w, all_tipitaka_words]} :
       LET gender == pos_to_gender(w.pos)
           g == get_noun_lemma_id(registry, l)
           lemma_id == g.ret
           forms == parsed.forms
           has_nom_sg == \E i \in 1..Len(forms) :
                            /\ forms[i].case_name = CASE_NOMINATIVE
                            /\ forms[i].number = NUMBER_SINGULAR
           kept == IF forms # <<>> /\ has_nom_sg THEN Attested(forms) ELSE <<>>
           ids == [i \in 1..Len(kept) |-> DeclensionIdOf(lemma_id, gender, kept[i])]
           ins == InsertAll(txn.decl, ids)
       IN
       /\ call' = Call("get_noun", l, g)
       /\ registry' = g.reg
       /\ IF g.out = "overflow"
          THEN Raise /\ UNCHANGED <<cur, stats>>
          ELSE /\ txn' = [txn EXCEPT
                            !.nouns = @ \cup {[id |-> rows + 1, lemma |-> l,
                                               lemma_id |-> lemma_id, gender |-> gender,
                                               pattern |-> w.pattern]},
                            !.decl = ins.table]
               /\ cur' = [kind |-> "noun", lemma_id |-> lemma_id, gender |-> gender,
                          pattern |-> w.pattern, word |-> w, forms |-> forms,
                          stored |-> [i \in 1..Len(kept) |->
                                        [form |-> kept[i], form_id |-> ids[i]]]]
               /\ stats' = [stats EXCEPT
                    !.total_noun_forms_generated = @ + parsed.total_generated,
                    !.total_noun_forms_filtered = @ + parsed.not_in_corpus,
                    !.nouns_processed = IF forms # <<>> /\ has_nom_sg THEN @ + 1 ELSE @,
                    !.total_declensions = @ + ins.count,
                    !.nouns_discarded = IF forms # <<>> /\ has_nom_sg THEN @
                                        ELSE Append(@, w.lemma_1)]
               /\ UNCHANGED <<pc, err>>
    /\ UNCHANGED <<file, backup, tmp, original_registry, mode, runs, seen, db,
                   pool, headwords, gram, validator, all_tipitaka_words, codec, dedup, io, file0, db0>>

\* extract_and_save, lines 971-1025: one iteration of the verb loop
ExtractVerb(l, w) ==
    /\ pc = "verbs" /\ mode = "extract"
    /\ rows < MaxRows
    /\ rows' = rows + 1
    /\ allKnown' = (allKnown /\ l \in DOMAIN original_registry.verbs)
    /\ \E parsed \in {VerbTemplateForms[w, all_tipitaka_words]} :
       LET g == get_verb_lemma_id(registry, l)
           lemma_id == g.ret
           forms == parsed.forms
           has_reflexive == IF \E i \in 1..Len(forms) : forms[i].reflexive = REFLEXIVE_YES
                            THEN 1 ELSE 0
           kept == Attested(forms)
           ids == [i \in 1..Len(kept) |-> ConjugationIdOf(lemma_id, kept[i])]
           ins == InsertAll(txn.conj, ids)
       IN
       /\ call' = Call("get_verb", l, g)
       /\ registry' = g.reg
       /\ IF g.out = "overflow"
          THEN Raise /\ UNCHANGED <<cur, stats>>
          ELSE /\ txn' = [txn EXCEPT
                            !.verbs = @ \cup {[id |-> rows + 1, lemma |-> l,
                                               lemma_id |-> lemma_id,
                                               has_reflexive |-> has_reflexive,
                                               pattern |-> w.pattern]},
                            !.conj = ins.table]
               /\ cur' = [kind |-> "verb", lemma_id |-> lemma_id, gender |-> 0,
                          pattern |-> w.pattern, word |-> w, forms |-> forms,
                          stored |-> [i \in 1..Len(kept) |->
                                        [form |-> kept[i], form_id |-> ids[i]]]]
               /\ stats' = [stats EXCEPT
                    !.total_verb_forms_generated = @ + parsed.total_generated,
                    !.total_verb_forms_filtered = @ + parsed.not_in_corpus,
                    !.verbs_processed = IF forms # <<>> THEN @ + 1 ELSE @,
                    !.total_conjugations = @ + ins.count]
               /\ UNCHANGED <<pc, err>>
    /\ UNCHANGED <<file, backup, tmp, original_registry, mode, runs, seen, db,
                   pool, headwords, gram, validator, all_tipitaka_words, codec, dedup, io, file0, db0>>

\* the noun loop ends, the verb loop begins
EndNouns ==
    /\ pc = "nouns"
    /\ pc' = "verbs"
    /\ rows' = 0
    /\ seen' = {}
    /\ UNCHANGED <<file, backup, tmp, registry, original_registry, mode, runs, call, cur,
                   stats, err, db, txn, pool, headwords, gram, validator, all_tipitaka_words, codec, dedup, io, file0, db0, allKnown>>

\* an extract_and_save that looks at new_nouns only when it decides to save
EndVerbsNounsOnly ==
    /\ pc = "verbs"
    /\ rows' = 0
    /\ seen' = {}
    /\ IF mode = "extract"
       THEN /\ db' = [db EXCEPT !.tables = txn]
            /\ txn' = EmptyTables
            /\ LET new_nouns == Cardinality(DOMAIN registry.nouns)
                                  - Cardinality(DOMAIN original_registry.nouns)
               IN pc' = IF new_nouns > 0 THEN "save" ELSE "done"
       ELSE /\ pc' = "save"
            /\ UNCHANGED <<db, txn>>
    /\ UNCHANGED <<file, backup, tmp, registry, original_registry, mode, runs, call, cur,
                   stats, err, pool, headwords, gram, validator, all_tipitaka_words, codec, dedup, io, file0, db0, allKnown>>

\* after the verb loop: extract_and_save commits and closes the database
\* (1027-1028) and saves the registry only when lemmas were added (1031-1037);
\* populate_all_lemmas_to_registry always saves (285)
EndVerbs ==
    /\ pc = "verbs"
    /\ rows' = 0
    /\ seen' = {}
    /\ IF mode = "extract"
       THEN /\ db' = [db EXCEPT !.tables = txn]
            /\ txn' = EmptyTables
            /\ LET new_nouns == Cardinality(DOMAIN registry.nouns)
                                  - Cardinality(DOMAIN original_registry.nouns)
                   new_verbs == Cardinality(DOMAIN registry.verbs)
                                  - Cardinality(DOMAIN original_registry.verbs)
               IN pc' = IF new_nouns > 0 \/ new_verbs > 0 THEN "save" ELSE "done"
       ELSE /\ pc' = "save"
            /\ UNCHANGED <<db, txn>>
    /\ UNCHANGED <<file, backup, tmp, registry, original_registry, mode, runs, call, cur,
                   stats, err, pool, headwords, gram, validator, all_tipitaka_words, codec, dedup, io, file0, db0, allKnown>>

(***************************************************************************)
(* save_registry, one action per step that touches the file system.        *)
(***************************************************************************)
\* lines 91-104: validate, then the diff against original_registry
\* a save_registry that validates but does not compare with original_registry
SaveAcceptsWithoutDiff(r, orig) == validate_registry(r)

SaveAccepts(r, orig) == validate_registry(r) /\ NoMappingLost(r, orig)

SaveCheck ==
    /\ pc = "save"
    /\ IF SaveAccepts(registry, original_registry)
       THEN pc' = "backup" /\ UNCHANGED <<err, txn>>
       ELSE Raise
    /\ UNCHANGED <<file, backup, tmp, registry, original_registry, mode, runs, rows, seen,
                   call, cur, stats, db, pool, headwords, gram, validator, all_tipitaka_words, codec, dedup, io, file0, db0, allKnown>>

\* lines 107-108: shutil.copy2 opens the backup and starts copying
SaveBackupBegin ==
    /\ pc = "backup"
    /\ IF file.st = "absent"
       THEN pc' = "write" /\ UNCHANGED backup
       ELSE pc' = "copying" /\ backup' = PartialFile(file.data)
    /\ UNCHANGED <<file, tmp, registry, original_registry, mode, runs, rows, seen, call,
                   cur, stats, err, db, txn, pool, headwords, gram, validator, all_tipitaka_words, codec, dedup, io, file0, db0,
                   allKnown>>

\* shutil.copy2 finished
SaveBackupEnd ==
    /\ pc = "copying"
    /\ backup' = file
    /\ pc' = "write"
    /\ UNCHANGED <<file, tmp, registry, original_registry, mode, runs, rows, seen, call,
                   cur, stats, err, db, txn, pool, headwords, gram, validator, all_tipitaka_words, codec, dedup, io, file0, db0,
                   allKnown>>

\* a save_registry that writes the registry file in place
SaveWriteInPlace ==
    /\ pc = "write"
    /\ file' = PartialFile(registry)
    /\ pc' = "writing"
    /\ UNCHANGED <<tmp, backup, registry, original_registry, mode, runs, rows, seen,
                   call, cur, stats, err, db, txn, pool, headwords, gram, validator, all_tipitaka_words, codec, dedup, io, file0,
                   db0, allKnown>>

\* line 113: write_text opens the temp file and starts writing
SaveWriteBegin ==
    /\ pc = "write"
    /\ tmp' = PartialFile(registry)
    /\ pc' = "writing"
    /\ UNCHANGED <<file, backup, registry, original_registry, mode, runs, rows, seen,
                   call, cur, stats, err, db, txn, pool, headwords, gram, validator, all_tipitaka_words, codec, dedup, io, file0, db0,
                   allKnown>>

\* write_text finished
SaveWriteEnd ==
    /\ pc = "writing"
    /\ tmp' = FullFile(registry)
    /\ pc' = "rename"
    /\ UNCHANGED <<file, backup, registry, original_registry, mode, runs, rows, seen,
                   call, cur, stats, err, db, txn, pool, headwords, gram, validator, all_tipitaka_words, codec, dedup, io, file0, db0,
                   allKnown>>

\* line 114: temp_path.rename(REGISTRY_PATH)
SaveRename ==
    /\ pc = "rename"
    /\ file' = tmp
    /\ tmp' = NoFile
    /\ pc' = "done"
    /\ io' = [io EXCEPT !.save_registry = @ + 1]
    /\ UNCHANGED <<backup, registry, original_registry, mode, runs, rows, seen, call,
                   cur, stats, err, db, txn, pool, headwords, gram, validator, all_tipitaka_words, codec, dedup, file0, db0,
                   allKnown>>

\* the process is killed between two steps: memory and the open transaction
\* are lost, the files stay as they are
Crash ==
    /\ pc \notin Ended
    /\ pc' = "crashed"
    /\ registry' = NoRegistry
    /\ original_registry' = NoRegistry
    /\ txn' = EmptyTables
    /\ call' = NoCall
    /\ cur' = NoRow
    /\ UNCHANGED <<file, backup, tmp, mode, runs, rows, seen, stats, err, db, pool, headwords, gram, validator,
                   all_tipitaka_words, codec, dedup, io, file0, db0, allKnown>>

Next ==
    \/ \E m \in {"populate", "extract"} : Load(m)
    \/ PopulateDeclined
    \/ create_schema
    \/ \E l \in NounLemmas : PopulateNoun(l)
    \/ \E l \in VerbLemmas : PopulateVerb(l)
    \/ \E l \in NounLemmas, w \in NounWords(pool) : ExtractNoun(l, w)
    \/ \E l \in VerbLemmas, w \in VerbWords(pool) : ExtractVerb(l, w)
    \/ EndNouns
    \/ EndVerbs
    \/ SaveCheck
    \/ SaveBackupBegin
    \/ SaveBackupEnd
    \/ SaveWriteBegin
    \/ SaveWriteEnd
    \/ SaveRename
    \/ Crash

Spec == Init /\ [][Next]_vars

\* the same runs when no registry file exists before the first one
InitFresh == InitWith({NoFile}, "basic", BasicCorpus)

SpecFresh == InitFresh /\ [][Next]_vars

(***************************************************************************)
(* One rebuild from scratch over every headword shape: extract_and_save    *)
(* from load_registry to the commit.                                       *)
(***************************************************************************)
\* no registry file yet, every headword shape, either attested word set
InitForms == \E c \in Corpora : InitWith({NoFile}, "wide", c)

FirstRebuild == runs = 0 /\ Load("extract")

NextForms ==
    \/ FirstRebuild
    \/ create_schema
    \/ \E l \in NounLemmas, w \in NounWords(pool) : ExtractNoun(l, w)
    \/ \E l \in VerbLemmas, w \in VerbWords(pool) : ExtractVerb(l, w)
    \/ EndNouns
    \/ EndVerbs

SpecForms == InitForms /\ [][NextForms]_vars

(***************************************************************************)
(* The FormID codec on its own: encode a tuple, decode the FormID.         *)
(***************************************************************************)
\* the values one decimal digit holds
Digits == 0..9

\* lemma IDs at the ends of each partition's range
CodecNounIds == {NOUN_ID_START, NOUN_ID_MAX}
CodecVerbIds == {VERB_ID_START, VERB_ID_MAX}

InitCodec == InitWith({NoFile}, "basic", BasicCorpus)

EncodeDeclension(lemma_id, case, gender, number, ending_index) ==
    /\ codec.step = "none"
    /\ codec' = [kind |-> "declension", step |-> "encoded",
                 args |-> [lemma_id |-> lemma_id, case |-> case, gender |-> gender,
                           number |-> number, ending_index |-> ending_index],
                 form_id |-> compute_declension_form_id(lemma_id, case, gender, number,
                                                        ending_index),
                 parsed |-> <<>>]
    /\ UNCHANGED <<file, backup, tmp, registry, original_registry, pc, mode, runs, rows,
                   seen, call, cur, stats, err, db, txn, pool, headwords, gram, validator, all_tipitaka_words, file0,
                   db0, allKnown, dedup, io>>

DecodeDeclension ==
    /\ codec.kind = "declension" /\ codec.step = "encoded"
    /\ codec' = [codec EXCEPT !.step = "decoded",
                              !.parsed = parse_declension_form_id(codec.form_id)]
    /\ UNCHANGED <<file, backup, tmp, registry, original_registry, pc, mode, runs, rows,
                   seen, call, cur, stats, err, db, txn, pool, headwords, gram, validator, all_tipitaka_words, file0,
                   db0, allKnown, dedup, io>>

EncodeConjugation(lemma_id, tense, person, number, reflexive, ending_index) ==
    /\ codec.step = "none"
    /\ codec' = [kind |-> "conjugation", step |-> "encoded",
                 args |-> [lemma_id |-> lemma_id, tense |-> tense, person |-> person,
                           number |-> number, reflexive |-> reflexive,
                           ending_index |-> ending_index],
                 form_id |-> compute_conjugation_form_id(lemma_id, tense, person, number,
                                                         reflexive, ending_index),
                 parsed |-> <<>>]
    /\ UNCHANGED <<file, backup, tmp, registry, original_registry, pc, mode, runs, rows,
                   seen, call, cur, stats, err, db, txn, pool, headwords, gram, validator, all_tipitaka_words, file0,
                   db0, allKnown, dedup, io>>

DecodeConjugation ==
    /\ codec.kind = "conjugation" /\ codec.step = "encoded"
    /\ codec' = [codec EXCEPT !.step = "decoded",
                              !.parsed = parse_conjugation_form_id(codec.form_id)]
    /\ UNCHANGED <<file, backup, tmp, registry, original_registry, pc, mode, runs, rows,
                   seen, call, cur, stats, err, db, txn, pool, headwords, gram, validator, all_tipitaka_words, file0,
                   db0, allKnown, dedup, io>>

\* a tuple is encoded once, then its FormID is decoded
EncodeAnyDeclension ==
    /\ codec.step = "none"
    /\ \E lemma_id \in CodecNounIds, case \in Digits, gender \in Digits, number \in Digits,
          ending_index \in Digits :
            EncodeDeclension(lemma_id, case, gender, number, ending_index)

EncodeAnyConjugation ==
    /\ codec.step = "none"
    /\ \E lemma_id \in CodecVerbIds, tense \in Digits, person \in Digits, number \in Digits,
          reflexive \in Digits, ending_index \in Digits :
            EncodeConjugation(lemma_id, tense, person, number, reflexive, ending_index)

NextCodec ==
    \/ EncodeAnyDeclension
    \/ DecodeDeclension
    \/ EncodeAnyConjugation
    \/ DecodeConjugation

SpecCodec == InitCodec /\ [][NextCodec]_vars

(***************************************************************************)
(* The two pairs of FormID decoders, handed any FormID: those of           *)
(* extraction/validate_db.py and those of analysis/analyze_corpus_filters. *)
(***************************************************************************)
\* the digits above the four (five) dimension digits: none, one digit, the
\* ends of the partition, one digit more than a lemma ID has
DeclensionHeads == {0, 7, NOUN_ID_START, NOUN_ID_MAX, NOUN_ID_MAX + VERB_ID_MAX}
ConjugationHeads == {0, 7, VERB_ID_START, VERB_ID_MAX, NOUN_ID_MAX + VERB_ID_MAX}

\* digits a position of a conjugation FormID is tried with
SomeDigits == {0, 1, 5, 9}

\* h followed by the digits c, g, n, e
DeclensionFormId(h, c, g, n, e) == h * 10000 + c * 1000 + g * 100 + n * 10 + e

\* h followed by the digits t, p, n, v, e
ConjugationFormId(h, t, p, n, v, e) ==
    [hi |-> h, lo |-> t * 10000 + p * 1000 + n * 100 + v * 10 + e]

InitDecoders == InitWith({NoFile}, "basic", BasicCorpus)

CodecFrame ==
    UNCHANGED <<file, backup, tmp, registry, original_registry, pc, mode, runs, rows,
                seen, call, cur, stats, err, db, txn, pool, headwords, gram, validator,
                all_tipitaka_words, file0, db0, allKnown, dedup, io>>

\* extraction/validate_db.py parse_declension_form_id(form_id)
ParseDeclension(form_id) ==
    /\ codec.step = "none"
    /\ codec' = [kind |-> "declension", step |-> "parsed", args |-> <<>>,
                 form_id |-> form_id, parsed |-> parse_declension_form_id(form_id),
                 analysis |-> <<>>]
    /\ CodecFrame

\* extraction/validate_db.py parse_conjugation_form_id(form_id)
ParseConjugation(form_id) ==
    /\ codec.step = "none"
    /\ codec' = [kind |-> "conjugation", step |-> "parsed", args |-> <<>>,
                 form_id |-> form_id, parsed |-> parse_conjugation_form_id(form_id),
                 analysis |-> <<>>]
    /\ CodecFrame

\* analysis/analyze_corpus_filters.py, the function of the same name on the
\* same form_id
ParseInAnalysis ==
    /\ codec.step = "parsed"
    /\ codec' = [codec EXCEPT
                   !.step = "both",
                   !.analysis = IF codec.kind = "declension"
                                THEN analysis_parse_declension_form_id(codec.form_id)
                                ELSE analysis_parse_conjugation_form_id(codec.form_id)]
    /\ CodecFrame

\* one FormID is decoded by the one module, then by the other
ParseAnyDeclension ==
    /\ codec.step = "none"
    /\ \E h \in DeclensionHeads, c \in Digits, g \in Digits, n \in Digits, e \in Digits :
          ParseDeclension(DeclensionFormId(h, c, g, n, e))

ParseAnyConjugation ==
    /\ codec.step = "none"
    /\ \E h \in ConjugationHeads, t \in SomeDigits, p \in SomeDigits, n \in SomeDigits,
          v \in SomeDigits, e \in SomeDigits :
          ParseConjugation(ConjugationFormId(h, t, p, n, v, e))

NextDecoders ==
    \/ ParseAnyDeclension
    \/ ParseAnyConjugation
    \/ ParseInAnalysis

SpecDecoders == InitDecoders /\ [][NextDecoders]_vars

(***************************************************************************)
(* save_registry on its own: called with any registry and any              *)
(* original_registry, over any files.                                      *)
(***************************************************************************)
\* registries save_registry may be handed: those a file may hold and those
\* with a further noun
SaveRegistries ==
    FileRegistries \cup
    {Registry(NOUN_ID_START + 2, VERB_ID_START, ns, EmptyMap) :
        ns \in {[l \in NounLemmas |-> IF l = "n1" THEN NOUN_ID_START ELSE NOUN_ID_START + 1],
                [l \in NounLemmas |-> IF l = "n1" THEN NOUN_ID_START + 1 ELSE NOUN_ID_START],
                Put(EmptyMap, "n2", NOUN_ID_START + 1)}}

\* the registries load_registry can have returned
LoadedRegistries == {FreshRegistry} \cup {r \in FileRegistries : validate_registry(r)}

InitSave ==
    /\ original_registry \in LoadedRegistries
    /\ registry \in SaveRegistries
    /\ file \in {NoFile, FullFile(original_registry)}
    /\ backup \in {NoFile, FullFile(FreshRegistry)}
    /\ tmp \in {NoFile, PartialFile(FreshRegistry)}
    /\ pc = "save"
    /\ mode = "populate"
    /\ runs = 1
    /\ rows = 0
    /\ seen = {}
    /\ call = NoCall
    /\ cur = NoRow
    /\ stats = ZeroStats
    /\ err = "none"
    /\ db = Database(FALSE, 0, EmptyTables)
    /\ txn = EmptyTables
    /\ pool = "basic"
    /\ headwords = <<>>
    /\ gram = NoGram
    /\ validator = NoValidator
    /\ all_tipitaka_words = BasicCorpus
    /\ file0 = file
    /\ db0 = db
    /\ allKnown = TRUE
    /\ codec = NoCodec
    /\ dedup = NoDedup
    /\ io = [NoIo EXCEPT !.load_registry = 1]

NextSave ==
    \/ SaveCheck
    \/ SaveBackupBegin
    \/ SaveBackupEnd
    \/ SaveWriteBegin
    \/ SaveWriteEnd
    \/ SaveRename
    \/ Crash

SpecSave == InitSave /\ [][NextSave]_vars

(***************************************************************************)
(* The deduplicator on its own: build_singular_index over a list of nouns, *)
(* then check_redundant for one headword.                                  *)
(***************************************************************************)
\* the length of the list of nouns the index is built from
MaxNouns == 3

DedupNouns == {KusalaMascWord, KusalaNtWord, KusalaFemWord, KusalaOtherWord,
               KusalaBareWord, KusalaPlWord, BuddhaWord}

DedupNounLists == UNION {[1..n -> DedupNouns] : n \in 0..MaxNouns}

\* the headwords check_redundant is called for
DedupWords == {KusalaPlWord, KusalaPl2Word, BrokenPlWord, KusalaMascWord}

InitDedup == InitWith({NoFile}, "wide", WideCorpus)

build_singular_index(all_nouns) ==
    /\ dedup.step = "none"
    /\ dedup' = [dedup EXCEPT !.step = "indexed",
                              !.all_nouns = all_nouns,
                              !.singular_index = IndexFrom(all_nouns, 1)]
    /\ UNCHANGED <<file, backup, tmp, registry, original_registry, pc, mode, runs, rows,
                   seen, call, cur, stats, err, db, txn, pool, headwords, gram, validator, all_tipitaka_words, file0,
                   db0, allKnown, codec, io>>

\* lines 215-272; the counters are reached only past the two early returns
check_redundant(word) ==
    /\ dedup.step = "indexed"
    /\ \E best_match \in {BestMatch(word, dedup.singular_index)} :
         LET counted == /\ is_plural_only_pattern(word.pattern)
                        /\ get_all_forms_from_template(word) # {}
         IN dedup' = [dedup EXCEPT
                !.step = "checked",
                !.word = word,
                !.result = best_match,
                !.redundant_count =
                    IF counted /\ best_match.is_redundant THEN @ + 1 ELSE @,
                !.true_plural_only_count =
                    IF counted /\ ~best_match.is_redundant THEN @ + 1 ELSE @]
    /\ UNCHANGED <<file, backup, tmp, registry, original_registry, pc, mode, runs, rows,
                   seen, call, cur, stats, err, db, txn, pool, headwords, gram, validator, all_tipitaka_words, file0,
                   db0, allKnown, codec, io>>

NextDedup ==
    \/ \E all_nouns \in DedupNounLists : build_singular_index(all_nouns)
    \/ \E word \in DedupWords : check_redundant(word)

SpecDedup == InitDedup /\ [][NextDedup]_vars

(***************************************************************************)
(* populate_all_lemmas_to_registry over a fresh registry: the lemmas of    *)
(* the lexical source in the order the function hands them to the          *)
(* registry.                                                               *)
(***************************************************************************)
\* number of DpdHeadword rows the lexical source holds
MaxHeadwords == 3

\* lines 215-220: the noun and the verb POS types
noun_pos == {"noun", "masc", "fem", "neut", "nt", "abstr", "act", "agent", "dimin"}
verb_pos == {"vb", "pr", "aor", "fut", "opt", "imp", "cond", "caus", "pass", "reflx",
             "deno", "desid", "intens", "trans", "intrans", "ditrans", "impers", "inf",
             "abs", "ger", "comp vb"}

\* ebt_count of a row: None (<<>>) or a count
EbtCounts == {<<>>, <<1>>, <<2>>}

Headwords ==
    {[pos |-> "masc", lemma_clean |-> l, ebt_count |-> e] : l \in NounLemmas, e \in EbtCounts}
    \cup
    {[pos |-> "pr", lemma_clean |-> l, ebt_count |-> e] : l \in VerbLemmas, e \in EbtCounts}

HeadwordLists == UNION {[1..n -> Headwords] : n \in 0..MaxHeadwords}

\* lines 226-232, 247-253: the query, DpdHeadword.pos.in_(...)
Query(all_words, pos_list) == SelectSeq(all_words, LAMBDA word : word.pos \in pos_list)

\* lines 238, 259: word.ebt_count or 0
OrZero(ebt_count) == IF ebt_count = <<>> \/ ebt_count[1] = 0 THEN 0 ELSE ebt_count[1]

\* a grouping that keeps the count of the last row of a lemma
UpdatedAlways(by_lemma, lc, ebt) ==
    LET at == {i \in 1..Len(by_lemma) : by_lemma[i].lemma_clean = lc} IN
    IF at = {}
    THEN Append(by_lemma, [lemma_clean |-> lc, max_ebt |-> ebt])
    ELSE [by_lemma EXCEPT ![CHOOSE i \in at : TRUE].max_ebt = ebt]

\* lines 239-240, 260-261: if lc not in by_lemma or ebt > by_lemma[lc]:
\* by_lemma[lc] = ebt. The dict is a sequence in insertion order.
Updated(by_lemma, lc, ebt) ==
    LET at == {i \in 1..Len(by_lemma) : by_lemma[i].lemma_clean = lc} IN
    IF at = {}
    THEN Append(by_lemma, [lemma_clean |-> lc, max_ebt |-> ebt])
    ELSE IF ebt > by_lemma[CHOOSE i \in at : TRUE].max_ebt
         THEN [by_lemma EXCEPT ![CHOOSE i \in at : TRUE].max_ebt = ebt]
         ELSE by_lemma

\* lines 235-240, 256-261: the loop over the rows of the query
RECURSIVE GroupLoop(_, _, _)
GroupLoop(all_words, k, by_lemma) ==
    IF k > Len(all_words)
    THEN by_lemma
    ELSE GroupLoop(all_words, k + 1,
                   Updated(by_lemma, all_words[k].lemma_clean, OrZero(all_words[k].ebt_count)))

\* sorted(..., key=lambda x: -x[1]) is stable: an item goes behind every
\* item whose count is at least its own
InsertSorted(items, item) ==
    LET before == SelectSeq(items, LAMBDA x : x.max_ebt >= item.max_ebt)
        after == SelectSeq(items, LAMBDA x : x.max_ebt < item.max_ebt)
    IN before \o <<item>> \o after

RECURSIVE sorted(_)
sorted(items) ==
    IF items = <<>>
    THEN <<>>
    ELSE InsertSorted(sorted(SubSeq(items, 1, Len(items) - 1)), items[Len(items)])

\* lines 243, 264
noun_lemmas == sorted(GroupLoop(Query(headwords, noun_pos), 1, <<>>))
verb_lemmas == sorted(GroupLoop(Query(headwords, verb_pos), 1, <<>>))

\* no registry file or one that holds no lemma, any rows in the source
InitPopulate ==
    /\ file \in {NoFile, FullFile(FreshRegistry)}
    /\ backup = NoFile
    /\ tmp = NoFile
    /\ registry = NoRegistry
    /\ original_registry = NoRegistry
    /\ pc = "idle"
    /\ mode = "none"
    /\ runs = 0
    /\ rows = 0
    /\ seen = {}
    /\ call = NoCall
    /\ cur = NoRow
    /\ stats = ZeroStats
    /\ err = "none"
    /\ db = Database(FALSE, 0, EmptyTables)
    /\ txn = EmptyTables
    /\ pool = "basic"
    /\ headwords \in HeadwordLists
    /\ gram = NoGram
    /\ validator = NoValidator
    /\ all_tipitaka_words = BasicCorpus
    /\ file0 = file
    /\ db0 = db
    /\ allKnown = TRUE
    /\ codec = NoCodec
    /\ dedup = NoDedup
    /\ io = NoIo

FirstPopulate == runs = 0 /\ Load("populate")

\* lines 269-272: the next iteration of the loop over noun_lemmas
NextNounLemma ==
    /\ rows < Len(noun_lemmas)
    /\ PopulateNoun(noun_lemmas[rows + 1].lemma_clean)

\* the loop over noun_lemmas is exhausted
NounLemmasDone ==
    /\ mode = "populate"
    /\ rows = Len(noun_lemmas)
    /\ EndNouns

\* lines 276-279: the next iteration of the loop over verb_lemmas
NextVerbLemma ==
    /\ rows < Len(verb_lemmas)
    /\ PopulateVerb(verb_lemmas[rows + 1].lemma_clean)

\* the loop over verb_lemmas is exhausted, line 285 calls save_registry
VerbLemmasDone ==
    /\ mode = "populate"
    /\ rows = Len(verb_lemmas)
    /\ EndVerbs

NextPopulate ==
    \/ FirstPopulate
    \/ NextNounLemma
    \/ NounLemmasDone
    \/ NextVerbLemma
    \/ VerbLemmasDone
    \/ SaveCheck
    \/ SaveBackupBegin
    \/ SaveBackupEnd
    \/ SaveWriteBegin
    \/ SaveWriteEnd
    \/ SaveRename

SpecPopulate == InitPopulate /\ [][NextPopulate]_vars

(***************************************************************************)
(* The grammar classifiers on their own: called with any descriptor made   *)
(* of the tokens below.                                                    *)
(***************************************************************************)
\* number of whitespace-separated tokens of a descriptor
MaxTokens == 3

\* the tokens parse_verb_title and parse_verb_grammar know
KnownVerbTokens == {"pr", "imp", "opt", "fut", "aor", "1st", "2nd", "3rd", "sg", "pl",
                    "reflx"}
\* and a token that is none of them: the imperfect
VerbTokens == KnownVerbTokens \cup {"imperf"}

NounTokens == {"masc", "fem", "nt", "nom", "acc", "instr", "dat", "abl", "gen", "loc",
               "voc", "sg", "pl"}

\* row label and part of speech handed to the noun classifiers
NounContexts == {[label |-> "", pos |-> "masc"], [label |-> "Voc", pos |-> "fem"],
                 [label |-> "in comps", pos |-> "nt"], [label |-> "dative", pos |-> "abstr"]}

TokenLists(tokens) == UNION {[1..n -> tokens] : n \in 0..MaxTokens}

\* " ".join(tokens)
RECURSIVE Join(_)
Join(tokens) ==
    IF tokens = <<>> THEN ""
    ELSE IF Len(tokens) = 1 THEN tokens[1]
    ELSE tokens[1] \o " " \o Join(Tail(tokens))

InitGrammar == InitWith({NoFile}, "basic", BasicCorpus)

GramFrame ==
    UNCHANGED <<file, backup, tmp, registry, original_registry, pc, mode, runs, rows,
                seen, call, cur, stats, err, db, txn, pool, headwords, validator,
                all_tipitaka_words, file0, db0, allKnown, codec, dedup, io>>

\* extraction/grammar.py parse_verb_grammar, the same text as
\* NounVerbExtractor.parse_verb_grammar
ClassifyVerb(tokens) ==
    /\ gram.step = "none"
    /\ gram' = [step |-> "verb", tokens |-> tokens, grammar_str |-> Join(tokens),
                label |-> "", pos |-> "pr",
                result |-> parse_verb_grammar(Join(tokens), "", "pr"),
                other |-> <<>>]
    /\ GramFrame

\* html_parser.py parse_verb_title on the same string
ClassifyTitle ==
    /\ gram.step = "verb"
    /\ gram' = [gram EXCEPT !.step = "title",
                            !.other = parse_verb_title(gram.grammar_str)]
    /\ GramFrame

\* extraction/grammar.py parse_noun_grammar and pos_to_gender
ClassifyNoun(tokens, context) ==
    /\ gram.step = "none"
    /\ \E r \in {grammar_parse_noun_grammar(Join(tokens), context.label, context.pos)} :
          gram' = [step |-> "noun", tokens |-> tokens, grammar_str |-> Join(tokens),
                   label |-> context.label, pos |-> context.pos,
                   result |-> [case_name |-> r.case_name, number |-> r.number,
                               gender |-> r.gender,
                               pos_gender |-> grammar_pos_to_gender(context.pos)],
                   other |-> <<>>]
    /\ GramFrame

\* NounVerbExtractor.parse_noun_grammar and pos_to_gender on the same input
ClassifyNounInRun ==
    /\ gram.step = "noun"
    /\ \E r \in {parse_noun_grammar(gram.grammar_str, gram.label, gram.pos)} :
          gram' = [gram EXCEPT
                     !.step = "noun_run",
                     !.other = [case_name |-> r.case_name, number |-> r.number,
                                gender |-> r.gender,
                                pos_gender |-> pos_to_gender(gram.pos)]]
    /\ GramFrame

\* one descriptor is classified by the one function, then by the other
ClassifyAnyVerb ==
    /\ gram.step = "none"
    /\ \E tokens \in TokenLists(VerbTokens) : ClassifyVerb(tokens)

ClassifyAnyNoun ==
    /\ gram.step = "none"
    /\ \E tokens \in TokenLists(NounTokens), context \in NounContexts :
          ClassifyNoun(tokens, context)

NextGrammar ==
    \/ ClassifyAnyVerb
    \/ ClassifyTitle
    \/ ClassifyAnyNoun
    \/ ClassifyNounInRun

SpecGrammar == InitGrammar /\ [][NextGrammar]_vars

(***************************************************************************)
(* The validator on its own: validate_noun and validate_verb called in any *)
(* order on paradigms that are complete, partial or empty.                 *)
(***************************************************************************)
\* number of validate_noun / validate_verb calls on one validator
MaxValidated == 2

\* every dict of case_name and number, ordered by case, then number
NounGrid == [i \in 1..27 |-> [case_name |-> (i - 1) \div 3, number |-> (i - 1) % 3]]

\* every dict of tense, person, number and reflexive, ordered the same way
VerbGrid ==
    [i \in 1..144 |-> [tense |-> (i - 1) \div 24, person |-> ((i - 1) \div 6) % 4,
                       number |-> ((i - 1) \div 2) % 3, reflexive |-> (i - 1) % 2]]

\* cases (or tenses) 0..hi to the numbers (or persons) realized in each: `full`
\* for the values of `regular`, `weak` for the value `odd`, nothing elsewhere
Realized(hi, regular, full, odd, weak) ==
    [v \in 0..hi |-> IF v = odd THEN weak ELSE IF v \in regular THEN full ELSE {}]

\* the noun paradigms validate_noun is called on
NounShapes ==
    {Realized(8, 1..8, {1, 2}, 9, {}),     \* complete
     Realized(8, 1..8, {1}, 9, {}),        \* singular forms only
     Realized(8, 1..8, {2}, 9, {}),        \* plural forms only
     Realized(8, 1..7, {1, 2}, 9, {}),     \* no vocative
     Realized(8, 1..8, {1, 2}, 8, {1}),    \* no vocative plural
     Realized(8, {}, {}, 9, {}),           \* no form
     Realized(8, {}, {}, 0, {1, 2}),       \* case undetermined
     Realized(8, 1..8, {0}, 9, {}),        \* number undetermined
     Realized(8, {1}, {1}, 9, {})}         \* nominative singular only

NounForms(shape) ==
    LET keep(form) == form.number \in shape[form.case_name]
    IN  SelectSeq(NounGrid, keep)

\* lemma, pattern and plural_only_matches of the validate_noun calls
NounCalls ==
    {[lemma |-> "deva", pattern |-> "a masc", plural_only_matches |-> "None"],
     [lemma |-> "tayo", pattern |-> "a masc pl",
      plural_only_matches |-> <<[lemma |-> "ti", pattern |-> "a masc", match_ratio |-> 1]>>],
     [lemma |-> "apo", pattern |-> "a nt pl ", plural_only_matches |-> <<>>]}

\* the verb paradigms validate_verb is called on: persons per tense, numbers, voices
VerbShapes ==
    {[persons |-> Realized(5, 1..4, 1..3, 6, {}), numbers |-> {1, 2}, reflexive |-> {0}],
     [persons |-> Realized(5, 1..4, 1..3, 6, {}), numbers |-> {1, 2}, reflexive |-> {0, 1}],
     [persons |-> Realized(5, 1..4, 1..3, 6, {}), numbers |-> {1, 2}, reflexive |-> {1}],
     [persons |-> Realized(5, 1..4, 1..3, 6, {}), numbers |-> {1}, reflexive |-> {0}],
     [persons |-> Realized(5, 1..4, 1..3, 6, {}), numbers |-> {0}, reflexive |-> {0}],
     [persons |-> Realized(5, 1..5, 1..3, 6, {}), numbers |-> {1, 2}, reflexive |-> {0}],
     [persons |-> Realized(5, 1..3, 1..3, 6, {}), numbers |-> {1, 2}, reflexive |-> {0}],
     [persons |-> Realized(5, 1..4, {3}, 6, {}), numbers |-> {1, 2}, reflexive |-> {0}],
     [persons |-> Realized(5, 1..4, {1, 3}, 6, {}), numbers |-> {1, 2}, reflexive |-> {0}],
     [persons |-> Realized(5, 1..4, 1..3, 2, {2}), numbers |-> {1, 2}, reflexive |-> {0}],
     [persons |-> Realized(5, 1..4, 1..3, 3, {}), numbers |-> {1, 2}, reflexive |-> {0}],
     [persons |-> Realized(5, 1..4, 1..3, 3, {0}), numbers |-> {1, 2}, reflexive |-> {0}],
     [persons |-> Realized(5, 1..4, {3}, 0, {1}), numbers |-> {1, 2}, reflexive |-> {0}],
     [persons |-> Realized(5, 1..4, {3}, 2, {0}), numbers |-> {1, 2}, reflexive |-> {0}],
     [persons |-> Realized(5, 1..5, 1..3, 5, {3}), numbers |-> {1, 2}, reflexive |-> {0}],
     [persons |-> Realized(5, {}, {}, 6, {}), numbers |-> {1, 2}, reflexive |-> {0}]}

VerbForms(shape) ==
    LET keep(form) == /\ form.person \in shape.persons[form.tense]
                      /\ form.number \in shape.numbers
                      /\ form.reflexive \in shape.reflexive
    IN  SelectSeq(VerbGrid, keep)

\* lemma and pattern of the validate_verb calls
VerbCalls ==
    {[lemma |-> "karoti", pattern |-> "ati pr"],
     [lemma |-> "vassati", pattern |-> "ati pr"]}

InitValidator == InitWith({NoFile}, "basic", BasicCorpus)

ValidatorFrame ==
    UNCHANGED <<file, backup, tmp, registry, original_registry, pc, mode, runs, rows,
                seen, call, cur, stats, err, db, txn, pool, headwords, gram,
                all_tipitaka_words, file0, db0, allKnown, codec, dedup, io>>

\* InflectionValidator.validate_noun, lines 101-172
validate_noun(lemma, pattern, forms, plural_only_matches) ==
    /\ \E findings \in {noun_findings(pattern, forms)} :
          validator' =
              [validator EXCEPT
                  !.noun_count = @ + 1,
                  !.noun_irregularities =
                      IF noun_has_irregularities(findings)
                      THEN Append(@, NounIrregularity(lemma, pattern, findings,
                                                      plural_only_matches))
                      ELSE @,
                  !.last = [kind |-> "noun", lemma |-> lemma, pattern |-> pattern,
                            forms |-> forms]]
    /\ ValidatorFrame

\* InflectionValidator.validate_verb, lines 174-266
validate_verb(lemma, pattern, forms) ==
    /\ \E findings \in {verb_findings(forms)} :
          validator' =
              [validator EXCEPT
                  !.verb_count = @ + 1,
                  !.verb_irregularities =
                      IF verb_has_irregularities(findings)
                      THEN Append(@, VerbIrregularity(lemma, pattern, findings))
                      ELSE @,
                  !.last = [kind |-> "verb", lemma |-> lemma, pattern |-> pattern,
                            forms |-> forms]]
    /\ ValidatorFrame

ValidateAnyNoun ==
    /\ validator.noun_count + validator.verb_count < MaxValidated
    /\ \E c \in NounCalls, shape \in NounShapes :
          validate_noun(c.lemma, c.pattern, NounForms(shape), c.plural_only_matches)

ValidateAnyVerb ==
    /\ validator.noun_count + validator.verb_count < MaxValidated
    /\ \E c \in VerbCalls, shape \in VerbShapes :
          validate_verb(c.lemma, c.pattern, VerbForms(shape))

NextValidator == ValidateAnyNoun \/ ValidateAnyVerb

SpecValidator == InitValidator /\ [][NextValidator]_vars

(***************************************************************************)
(* Properties.                                                             *)
(***************************************************************************)
\* every mapping of old is a mapping of new, with the same ID
KeepsMappings(new, old) ==
    /\ \A l \in DOMAIN old.nouns : l \in DOMAIN new.nouns /\ new.nouns[l] = old.nouns[l]
    /\ \A l \in DOMAIN old.verbs : l \in DOMAIN new.verbs /\ new.verbs[l] = old.verbs[l]

\* C1: once a lemma text has an ID in the persisted registry file, every later
\* content of the file maps that lemma text to the same ID, across any
\* sequence of rebuilds (population runs, extraction runs, crashes).
C1_PersistedMappingsStable ==
    [][file.st = "full" => file'.st = "full" /\ KeepsMappings(file'.data, file.data)]_vars

\* a save has replaced a registry file that held a noun, and the new file
\* holds one more
C1_Witness ==
    /\ pc = "done"
    /\ file0.st = "full" /\ DOMAIN file0.data.nouns # {}
    /\ file # file0
    /\ Cardinality(DOMAIN file.data.nouns) > Cardinality(DOMAIN file0.data.nouns)

\* C2: starting from any registry load_registry returned, after any sequence of
\* get_noun_lemma_id / get_verb_lemma_id calls every noun ID lies in
\* 10001..69999, every verb ID lies in 70001..99999 and no integer is the ID of
\* both a noun and a verb.
C2_PartitionsRespected ==
    /\ \A l \in DOMAIN registry.nouns :
          registry.nouns[l] >= NOUN_ID_START /\ registry.nouns[l] <= NOUN_ID_MAX
    /\ \A l \in DOMAIN registry.verbs :
          registry.verbs[l] >= VERB_ID_START /\ registry.verbs[l] <= VERB_ID_MAX
    /\ Ids(registry.nouns) \cap Ids(registry.verbs) = {}

\* a loaded registry in which a verb got the ID a noun already has
C2_Witness ==
    /\ call.op = "get_verb" /\ call.out = "new"
    /\ call.ret \in Ids(registry.nouns)
    /\ validate_registry(original_registry)

\* C3: codec round trip. For a lemma_id in its partition's range and every
\* dimension value and ending index in 0..9, decoding the encoded FormID returns
\* exactly the tuple that was encoded, for declensions and for conjugations.
C3_CodecRoundTrip ==
    codec.step = "decoded" =>
        IF codec.kind = "declension"
        THEN /\ codec.parsed.lemma_id = codec.args.lemma_id
             /\ codec.parsed.case = codec.args.case
             /\ codec.parsed.gender = codec.args.gender
             /\ codec.parsed.number = codec.args.number
             /\ codec.parsed.ending_index = codec.args.ending_index
        ELSE /\ codec.parsed.lemma_id = codec.args.lemma_id
             /\ codec.parsed.tense = codec.args.tense
             /\ codec.parsed.person = codec.args.person
             /\ codec.parsed.number = codec.args.number
             /\ codec.parsed.voice = codec.args.reflexive
             /\ codec.parsed.ending_index = codec.args.ending_index

\* a declension FormID of the last noun ID, every digit different, was decoded
C3_Witness ==
    /\ codec.step = "decoded" /\ codec.kind = "declension"
    /\ codec.args = [lemma_id |-> NOUN_ID_MAX, case |-> 9, gender |-> 3, number |-> 2,
                     ending_index |-> 7]
    /\ codec.parsed.gender = 3

\* the forms of the row just handled whose FormIDs were inserted
StoredOfRow == {cur.stored[i] : i \in 1..Len(cur.stored)}

NounCallStep == rows' = rows + 1 /\ call'.op = "get_noun"
VerbCallStep == rows' = rows + 1 /\ call'.op = "get_verb"

\* C5: when a partition's watermark is greater than the partition maximum,
\* get_noun_lemma_id / get_verb_lemma_id for a lemma not in that partition
\* raises RegistryError, returns no ID and leaves the registry unchanged.
C5_OverflowRaises ==
    [][/\ (NounCallStep /\ call'.lemma \notin DOMAIN registry.nouns
              /\ registry.next_noun_id > NOUN_ID_MAX)
          => (call'.out = "overflow" /\ call'.ret = 0 /\ registry' = registry
                 /\ pc' = "failed" /\ err' = "RegistryError")
       /\ (VerbCallStep /\ call'.lemma \notin DOMAIN registry.verbs
              /\ registry.next_verb_id > VERB_ID_MAX)
          => (call'.out = "overflow" /\ call'.ret = 0 /\ registry' = registry
                 /\ pc' = "failed" /\ err' = "RegistryError")]_vars

\* get_verb_lemma_id raised on a full verb partition
C5_Witness ==
    /\ call.op = "get_verb" /\ call.out = "overflow"
    /\ pc = "failed" /\ err = "RegistryError"
    /\ registry.next_verb_id = VERB_ID_MAX + 1
    /\ call.lemma \notin DOMAIN registry.verbs

\* C6: get_noun_lemma_id / get_verb_lemma_id for a lemma absent from its
\* partition, the watermark not above the maximum, returns the watermark, adds
\* exactly that one mapping, advances that watermark by exactly 1 and leaves
\* every existing mapping and the other partition unchanged.
C6_NewLemmaFrame ==
    [][/\ (NounCallStep /\ call'.lemma \notin DOMAIN registry.nouns
              /\ registry.next_noun_id <= NOUN_ID_MAX)
          => /\ call'.out = "new" /\ call'.ret = registry.next_noun_id
             /\ DOMAIN registry'.nouns = DOMAIN registry.nouns \cup {call'.lemma}
             /\ registry'.nouns[call'.lemma] = registry.next_noun_id
             /\ \A l \in DOMAIN registry.nouns : registry'.nouns[l] = registry.nouns[l]
             /\ registry'.next_noun_id = registry.next_noun_id + 1
             /\ registry'.verbs = registry.verbs
             /\ registry'.next_verb_id = registry.next_verb_id
       /\ (VerbCallStep /\ call'.lemma \notin DOMAIN registry.verbs
              /\ registry.next_verb_id <= VERB_ID_MAX)
          => /\ call'.out = "new" /\ call'.ret = registry.next_verb_id
             /\ DOMAIN registry'.verbs = DOMAIN registry.verbs \cup {call'.lemma}
             /\ registry'.verbs[call'.lemma] = registry.next_verb_id
             /\ \A l \in DOMAIN registry.verbs : registry'.verbs[l] = registry.verbs[l]
             /\ registry'.next_verb_id = registry.next_verb_id + 1
             /\ registry'.nouns = registry.nouns
             /\ registry'.next_noun_id = registry.next_noun_id]_vars

\* a second noun was added to a registry that holds a verb
C6_Witness ==
    /\ call.op = "get_noun" /\ call.out = "new"
    /\ Cardinality(DOMAIN registry.nouns) = 2
    /\ DOMAIN registry.verbs # {}
    /\ registry.nouns[call.lemma] = call.ret

\* rows of a table that share one citation form carry one lemma ID
OneIdPerLemma(table) ==
    \A r1 \in table, r2 \in table : r1.lemma = r2.lemma => r1.lemma_id = r2.lemma_id

\* C7: a call with a lemma already in its partition returns the existing ID and
\* leaves the whole registry unchanged; all source rows sharing one citation
\* form get one lemma ID; a population run over a source whose lemmas are all
\* in the loaded registry leaves the registry, and the file it saves, identical.
C7_ExistingLemmaUnchanged ==
    [][/\ (NounCallStep /\ call'.lemma \in DOMAIN registry.nouns)
          => (call'.out = "existing" /\ call'.ret = registry.nouns[call'.lemma]
                 /\ registry' = registry)
       /\ (VerbCallStep /\ call'.lemma \in DOMAIN registry.verbs)
          => (call'.out = "existing" /\ call'.ret = registry.verbs[call'.lemma]
                 /\ registry' = registry)
       /\ OneIdPerLemma(txn'.nouns) /\ OneIdPerLemma(txn'.verbs)
       /\ OneIdPerLemma(db'.tables.nouns) /\ OneIdPerLemma(db'.tables.verbs)
       /\ (mode' = "populate" /\ allKnown') => registry' = original_registry'
       /\ (mode' = "populate" /\ allKnown' /\ pc' = "done" /\ file0'.st = "full")
          => file'.data = file0'.data]_vars

\* two source rows with the same citation form were handled, the second call
\* found the lemma in the registry
C7_Witness ==
    /\ mode = "extract" /\ call.op = "get_noun" /\ call.out = "existing"
    /\ \E r1 \in txn.nouns, r2 \in txn.nouns :
          r1.id # r2.id /\ r1.lemma = r2.lemma /\ r1.lemma_id = call.ret

\* C8: if save_registry rejects the registry (validate_registry fails, or a
\* mapping of original_registry was removed or changed) it raises RegistryError
\* and the registry file, the backup file and the temp file stay as they were.
C8_RejectedSaveTouchesNothing ==
    [][(pc = "save"
           /\ (~validate_registry(registry) \/ ~KeepsMappings(registry, original_registry)))
       => /\ file' = file /\ backup' = backup /\ tmp' = tmp
          /\ \/ pc' = "failed" /\ err' = "RegistryError"
             \/ pc' = "crashed"]_vars

\* a valid registry that lost a mapping of original_registry was rejected; the
\* registry file and a stale temp file are still there
C8_Witness ==
    /\ pc = "failed" /\ err = "RegistryError"
    /\ validate_registry(registry)
    /\ ~KeepsMappings(registry, original_registry)
    /\ file = FullFile(original_registry)
    /\ tmp.st = "partial"
    /\ backup.st = "absent"

\* C9: at every step of save_registry, a crash between any two steps included,
\* the registry file holds the complete previous registry or the complete new
\* one, never a partial write; after a successful save over an existing file
\* the backup holds the previous content and the registry file the new content.
C9_FileNeverPartial ==
    /\ file.st # "partial"
    /\ pc # "done" => file = file0
    /\ pc = "done" => file = file0 \/ file = FullFile(registry)
    /\ (pc = "done" /\ file0.st = "full"
           /\ (mode = "populate" \/ registry # original_registry))
       => (backup = file0 /\ file = FullFile(registry))

\* a save over an existing file succeeded
C9_Witness ==
    /\ pc = "done" /\ file0.st = "full"
    /\ file = FullFile(registry) /\ file # file0
    /\ backup = file0 /\ tmp = NoFile

\* C10: whenever extract_and_save ends with RegistryError, the output database
\* has not been deleted, recreated or populated by that run.
C10_ErrorBeforeAnyOutput ==
    (mode = "extract" /\ pc = "failed" /\ err = "RegistryError") => db = db0

\* get_noun_lemma_id raised on a full partition after create_schema had
\* replaced the database
C10_Witness ==
    /\ mode = "extract" /\ pc = "failed" /\ err = "RegistryError"
    /\ call.out = "overflow"
    /\ validate_registry(original_registry)
    /\ db # db0 /\ db.gen = runs

\* the positions of a run between load_registry and the end of save_registry
Running == {"schema", "nouns", "verbs", "save", "backup", "copying", "write", "writing",
            "rename"}

\* C11 as stated: in every run of extract_and_save that completes, the
\* registry is loaded once, mutated only in memory during the noun pass and
\* then the verb pass, and persisted (save_registry) exactly once, after both
\* passes have finished.
C11_PersistedExactlyOnce ==
    (mode = "extract" /\ pc = "done") =>
        io.load_registry = 1 /\ io.save_registry = 1

\* C11 amended: a run of extract_and_save loads the registry once, changes it
\* only in memory during the noun pass (nouns) and then the verb pass (verbs),
\* and persists it at most once, after both passes: exactly once when the run
\* added a lemma, not at all when it added none.
C11_PersistedOnceIfNewLemma ==
    mode = "extract" =>
        /\ io.load_registry = 1
        /\ pc \in Running => io.save_registry = 0 /\ file = file0
        /\ pc = "schema" => registry = original_registry
        /\ pc = "nouns" => registry.verbs = original_registry.verbs
        /\ pc = "done" =>
              io.save_registry = IF registry # original_registry THEN 1 ELSE 0

C11_Witness ==
    /\ mode = "extract" /\ pc = "done"
    /\ io.save_registry = 1
    /\ DOMAIN registry.verbs # DOMAIN original_registry.verbs
    /\ DOMAIN registry.nouns = DOMAIN original_registry.nouns
    /\ file = FullFile(registry)

\* a step of extract_and_save that handled one source row to its end
RowStep == mode = "extract" /\ rows' = rows + 1 /\ pc' # "failed"

\* C12: only attested forms are persisted. Every FormID row written for a
\* source row was computed from a generated form whose surface string is in
\* the attested word set; a form whose surface string is not in the set is
\* counted in the not-in-corpus statistic and is not among the forms written.
C12_OnlyAttestedPersisted ==
    [][RowStep =>
        LET F == cur'.forms
            S == cur'.stored
            theoretical == {j \in 1..Len(F) : F[j].form \notin all_tipitaka_words}
        IN /\ IF cur'.kind = "noun"
              THEN /\ txn'.conj = txn.conj
                   /\ \A id \in txn'.decl \ txn.decl :
                        \E i \in 1..Len(S) : S[i].form_id = id
              ELSE /\ txn'.decl = txn.decl
                   /\ \A id \in txn'.conj \ txn.conj :
                        \E i \in 1..Len(S) : S[i].form_id = id
           /\ \A i \in 1..Len(S) :
                /\ S[i].form.form \in all_tipitaka_words
                /\ \E j \in 1..Len(F) : F[j] = S[i].form
           /\ \A j \in theoretical : \A i \in 1..Len(S) : S[i].form.form # F[j].form
           /\ (stats'.total_noun_forms_filtered + stats'.total_verb_forms_filtered)
                - (stats.total_noun_forms_filtered + stats.total_verb_forms_filtered)
              = Cardinality(theoretical)]_vars

C12_Witness ==
    /\ cur.kind = "noun"
    /\ Len(cur.stored) > 0
    /\ Len(cur.stored) < Len(cur.forms)
    /\ stats.total_noun_forms_filtered > 0
    /\ txn.decl # {}

\* some form of the list is classified nominative singular
HasNomSg(forms) ==
    \E i \in 1..Len(forms) :
        forms[i].case_name = CASE_NOMINATIVE /\ forms[i].number = NUMBER_SINGULAR

\* the source row the noun loop handled last has no nominative singular form
IncompleteNoun == mode = "extract" /\ pc = "nouns" /\ cur.kind = "noun" /\ ~HasNomSg(cur.forms)

\* C13: completeness gating, exclusion. For a nominal lemma whose generated
\* forms contain no nominative singular form and whose pattern is not
\* plural-only, the run persists neither a row of the nouns table nor a
\* FormID row.
C13_IncompleteNounExcluded ==
    (IncompleteNoun /\ ~is_plural_only_pattern(cur.pattern)) =>
        /\ cur.stored = <<>>
        /\ \A r \in txn.nouns : r.id # rows

C13_Witness ==
    /\ IncompleteNoun /\ ~is_plural_only_pattern(cur.pattern)
    /\ cur.forms # <<>>
    /\ \E i \in 1..Len(cur.forms) : cur.forms[i].in_corpus = 1
    /\ cur.stored = <<>>
    /\ \E r \in txn.nouns : r.id = rows /\ r.pattern = cur.pattern

\* C14: completeness gating, plural-only exception. A nominal lemma whose
\* pattern is plural-only (ends in " pl") and that has generated forms is in
\* the trainable set, with the FormID of each attested form written, even
\* when none of its forms is nominative singular.
C14_PluralOnlyIncluded ==
    (IncompleteNoun /\ is_plural_only_pattern(cur.pattern) /\ cur.forms # <<>>) =>
        /\ \E r \in txn.nouns : r.id = rows /\ r.lemma_id = cur.lemma_id
        /\ \A j \in 1..Len(cur.forms) :
              cur.forms[j].in_corpus = 1 =>
                  DeclensionIdOf(cur.lemma_id, cur.gender, cur.forms[j]) \in txn.decl

C14_Witness ==
    /\ IncompleteNoun /\ is_plural_only_pattern(cur.pattern)
    /\ \E j \in 1..Len(cur.forms) :
          cur.forms[j].in_corpus = 1 /\ cur.forms[j].number = NUMBER_PLURAL
    /\ txn.decl = {}

\* the positions of extract_and_save after conn.commit()
Committed == {"save", "backup", "copying", "write", "writing", "rename", "done"}

\* C15: inserting a FormID that is already in the output table is silently
\* ignored. The run goes on, the table keeps each FormID once, and
\* total_declensions / total_conjugations equal the number of distinct FormIDs
\* in corpus_declensions / corpus_conjugations, during the passes and at the end.
C15_DuplicateFormIdIgnored ==
    mode = "extract" =>
        /\ pc \in {"nouns", "verbs"} =>
              /\ stats.total_declensions = Cardinality(txn.decl)
              /\ stats.total_conjugations = Cardinality(txn.conj)
        /\ pc \in Committed =>
              /\ stats.total_declensions = Cardinality(db.tables.decl)
              /\ stats.total_conjugations = Cardinality(db.tables.conj)

\* the second source row of a lemma produced only FormIDs the first had inserted
C15_Witness ==
    /\ mode = "extract" /\ pc = "nouns" /\ rows = 2
    /\ cur.kind = "noun" /\ Len(cur.stored) > 1
    /\ \A r \in txn.nouns : r.lemma_id = cur.lemma_id
    /\ txn.decl = {cur.stored[i].form_id : i \in 1..Len(cur.stored)}
    /\ stats.nouns_processed = 2
    /\ stats.total_declensions = Len(cur.stored)

\* C16: attestation partitions the generated forms. For every source row each
\* generated form has in_corpus = 1 exactly when its surface string is in the
\* attested word set and in_corpus = 0 otherwise, so the attested and the
\* theoretical forms are disjoint and together are all generated forms, and
\* total_generated = (number of forms with in_corpus = 1) + not_in_corpus.
C16_AttestationPartitions ==
    [][RowStep =>
        LET F == cur'.forms
            attested == {j \in 1..Len(F) : F[j].in_corpus = 1}
            theoretical == {j \in 1..Len(F) : F[j].in_corpus = 0}
            total_generated ==
                (stats'.total_noun_forms_generated + stats'.total_verb_forms_generated)
                - (stats.total_noun_forms_generated + stats.total_verb_forms_generated)
            not_in_corpus ==
                (stats'.total_noun_forms_filtered + stats'.total_verb_forms_filtered)
                - (stats.total_noun_forms_filtered + stats.total_verb_forms_filtered)
        IN /\ \A j \in 1..Len(F) :
                /\ F[j].form \in all_tipitaka_words => F[j].in_corpus = 1
                /\ F[j].form \notin all_tipitaka_words => F[j].in_corpus = 0
           /\ attested \cap theoretical = {}
           /\ attested \cup theoretical = 1..Len(F)
           /\ total_generated = Len(F)
           /\ total_generated = Cardinality(attested) + not_in_corpus]_vars

C16_Witness ==
    /\ cur.kind = "verb"
    /\ \E j \in 1..Len(cur.forms) : cur.forms[j].in_corpus = 1
    /\ \E j \in 1..Len(cur.forms) : cur.forms[j].in_corpus = 0
    /\ stats.total_verb_forms_generated = Len(cur.forms)
    /\ stats.total_verb_forms_filtered \in 1..(Len(cur.forms) - 1)

\* check_redundant has returned for a plural-only headword that has forms
Checked ==
    /\ dedup.step = "checked"
    /\ is_plural_only_pattern(dedup.word.pattern)
    /\ get_all_forms_from_template(dedup.word) # {}

\* the forms of the headword checked
LemmaForms == get_all_forms_from_template(dedup.word)

\* the indexed candidates sharing the headword's cleaned stem
SameStem ==
    {i \in 1..Len(dedup.singular_index) :
        dedup.singular_index[i].stem = clean_stem(dedup.word.stem)}

\* |candidate plural forms \cap lemma forms| / |lemma forms|
OverlapRatio(i) ==
    Ratio(Cardinality(dedup.singular_index[i].plural_forms \cap LemmaForms),
          Cardinality(LemmaForms))

SameRatio(a, b) == a.n * b.d = b.n * a.d

\* C17: check_redundant keeps the best candidate. The returned match_ratio is
\* the maximum overlap ratio over all indexed candidates of the stem, the
\* matched_lemma is a candidate with that ratio, and the ratio is 1.0 whenever
\* the lemma's forms are a subset of some candidate's plural forms.
C17_KeepsBestCandidate ==
    Checked =>
        /\ \A i \in SameStem : ~Greater(OverlapRatio(i), dedup.result.match_ratio)
        /\ dedup.result.matched_lemma # "None" =>
              \E i \in SameStem :
                  /\ dedup.singular_index[i].lemma_1 = dedup.result.matched_lemma
                  /\ SameRatio(OverlapRatio(i), dedup.result.match_ratio)
        /\ (\E i \in SameStem : LemmaForms \subseteq dedup.singular_index[i].plural_forms) =>
              SameRatio(dedup.result.match_ratio, Ratio(1, 1))

\* a later candidate holds every form, an earlier one two of three
C17_Witness ==
    /\ Checked
    /\ SameRatio(dedup.result.match_ratio, Ratio(2, 3))
    /\ dedup.result.is_redundant
    /\ \E i \in SameStem : LemmaForms \subseteq dedup.singular_index[i].plural_forms

MaxFrequency(lc, pos_list) ==
    LET counts == {IF headwords[i].ebt_count = <<>> THEN 0 ELSE headwords[i].ebt_count[1] :
                      i \in {j \in 1..Len(headwords) :
                                /\ headwords[j].lemma_clean = lc
                                /\ headwords[j].pos \in pos_list}}
    IN CHOOSE c \in counts : \A d \in counts : d <= c

SourceLemmas(pos_list) ==
    {headwords[i].lemma_clean : i \in {j \in 1..Len(headwords) : headwords[j].pos \in pos_list}}

\* ids are handed out by descending maximum frequency, from start upwards
DescendingFrom(ids, pos_list, start) ==
    /\ DOMAIN ids \subseteq SourceLemmas(pos_list)
    /\ \A l1, l2 \in DOMAIN ids :
          MaxFrequency(l1, pos_list) > MaxFrequency(l2, pos_list) => ids[l1] < ids[l2]
    /\ DOMAIN ids # {} =>
          \E l \in DOMAIN ids :
              /\ ids[l] = start
              /\ \A l2 \in SourceLemmas(pos_list) :
                    MaxFrequency(l, pos_list) >= MaxFrequency(l2, pos_list)

\* C19: populate_all_lemmas_to_registry on a fresh registry assigns noun IDs
\* and verb IDs in descending order of each lemma's maximum frequency count;
\* the most frequent lemma receives the start ID of its range, and when the
\* run is done every lemma of the source has its ID in the registry file.
C19_PopulateByDescendingFrequency ==
    /\ pc \notin Ended =>
          /\ DescendingFrom(registry.nouns, noun_pos, NOUN_ID_START)
          /\ DescendingFrom(registry.verbs, verb_pos, VERB_ID_START)
          /\ pc \notin {"nouns"} => DOMAIN registry.nouns = SourceLemmas(noun_pos)
          /\ pc \notin {"nouns", "verbs"} => DOMAIN registry.verbs = SourceLemmas(verb_pos)
    /\ pc = "done" =>
          /\ file.st = "full"
          /\ DescendingFrom(file.data.nouns, noun_pos, NOUN_ID_START)
          /\ DescendingFrom(file.data.verbs, verb_pos, VERB_ID_START)
          /\ DOMAIN file.data.nouns = SourceLemmas(noun_pos)
          /\ DOMAIN file.data.verbs = SourceLemmas(verb_pos)

\* a lemma whose later row has a smaller count than another lemma's row in
\* between still gets the start ID
C19_Witness ==
    /\ pc = "done" /\ mode = "populate"
    /\ Len(headwords) = 3
    /\ headwords[1].lemma_clean = headwords[3].lemma_clean
    /\ headwords[1].lemma_clean # headwords[2].lemma_clean
    /\ headwords[1].pos = "masc" /\ headwords[2].pos = "masc"
    /\ headwords[1].ebt_count = <<2>>
    /\ headwords[2].ebt_count = <<1>>
    /\ headwords[3].ebt_count = <<>>
    /\ file.data.nouns[headwords[1].lemma_clean] = NOUN_ID_START
    /\ file.data.nouns[headwords[2].lemma_clean] = NOUN_ID_START + 1

\* the label of the row contains "in comps"
InCompsLabel(row) ==
    /\ Len(row) > 0
    /\ Truthy(row[1])
    /\ Contains("in comps", lower(row[1].items[1]))

\* the headword with the "in comps" rows taken out of its template
ParadigmOnly(word) ==
    IF word.it.kind # "ok" THEN word
    ELSE [word EXCEPT !.it.data = SelectSeq(@, LAMBDA row : ~InCompsLabel(row))]

\* C20: rows whose label contains "in comps" are excluded entirely. The forms
\* parse_inflection_template generates for a noun are those of its template
\* without such rows, so none reaches the nominative-singular check or the
\* FormID tables, just as the deduplicator's form extraction skips the rows.
C20_InCompsRowsExcluded ==
    cur.kind = "noun" =>
        /\ cur.forms
             = parse_inflection_template(ParadigmOnly(cur.word), "noun",
                                         all_tipitaka_words).forms
        /\ \A j \in 1..Len(cur.stored) :
              \E i \in 1..Len(parse_inflection_template(ParadigmOnly(cur.word), "noun",
                                                        all_tipitaka_words).forms) :
                  cur.stored[j].form
                    = parse_inflection_template(ParadigmOnly(cur.word), "noun",
                                                all_tipitaka_words).forms[i]
        /\ get_all_forms_from_template(cur.word)
             = get_all_forms_from_template(ParadigmOnly(cur.word))

\* the form of an "in comps" row was written with its FormID
C20_Witness ==
    /\ cur.kind = "noun"
    /\ cur.word.it.kind = "ok"
    /\ \E n \in 1..Len(cur.word.it.data) : InCompsLabel(cur.word.it.data[n])
    /\ \E j \in 1..Len(cur.stored) :
          /\ cur.stored[j].form.case_name = CASE_NONE
          /\ cur.stored[j].form.number = NUMBER_NONE
          /\ cur.stored[j].form_id \in txn.decl

\* the endings of a template that are not empty: <<row, cell, position>>,
\* all three counted from 1, the cell an endings cell (odd Python column)
Slots(word) ==
    IF word.it.kind # "ok" THEN {}
    ELSE LET data == word.it.data IN
         UNION {UNION {{<<n, c, i>> :
                           i \in {k \in 1..Len(data[n][c].items) :
                                     data[n][c].items[k] # ""}} :
                       c \in {d \in 2..Len(data[n]) : d % 2 = 0}} :
                n \in 2..Len(data)}

\* template order
Earlier(s, t) ==
    \/ s[1] < t[1]
    \/ s[1] = t[1] /\ s[2] < t[2]
    \/ s[1] = t[1] /\ s[2] = t[2] /\ s[3] < t[3]

Rank(word, s) == 1 + Cardinality({t \in Slots(word) : Earlier(t, s)})

Surface(word, s) ==
    LET ending == word.it.data[s[1]][s[2]].items[s[3]] IN
    IF ending = "-" THEN clean_stem(word.stem) ELSE clean_stem(word.stem) \o ending

\* C21: template expansion. Every non-empty ending at 0-based position i of an
\* endings cell (a bare string counting as a one-element list) yields exactly
\* one generated form, in template order, with variant ordinal i and surface
\* form stem+ending, or the bare stem for the ending "-"; empty or missing
\* cells and empty endings yield none, and total_generated is the number of
\* forms returned.
C21_TemplateExpansion ==
    [][RowStep =>
        LET F == cur'.forms
            W == cur'.word
            total_generated ==
                (stats'.total_noun_forms_generated + stats'.total_verb_forms_generated)
                - (stats.total_noun_forms_generated + stats.total_verb_forms_generated)
        IN /\ Len(F) = Cardinality(Slots(W))
           /\ \A s \in Slots(W) :
                /\ Rank(W, s) \in 1..Len(F)
                /\ F[Rank(W, s)].form = Surface(W, s)
                /\ F[Rank(W, s)].ending_index = s[3] - 1
           /\ total_generated = Len(F)]_vars

\* the headword with an empty cell, an empty ending and the ending "-"
C21_Witness ==
    /\ cur.kind = "noun"
    /\ cur.word.it.kind = "ok"
    /\ \E n \in 2..Len(cur.word.it.data) :
          /\ Len(cur.word.it.data[n]) > 3
          /\ ~Truthy(cur.word.it.data[n][2])
          /\ \E k \in 1..Len(cur.word.it.data[n][4].items) :
                cur.word.it.data[n][4].items[k] = ""
    /\ Len(cur.forms) = 3
    /\ cur.forms[1].ending_index = 1
    /\ cur.forms[2].form = clean_stem(cur.word.stem)
    /\ cur.forms[2].ending_index = 2
    /\ stats.total_noun_forms_generated >= 3

\* the tokens of the descriptor classified last
HasToken(t) == \E k \in 1..Len(gram.tokens) : gram.tokens[k] = t

\* the tense tokens from the highest priority to the lowest
TensePriority == << <<"opt", TENSE_OPTATIVE>>, <<"imp", TENSE_IMPERATIVE>>,
                    <<"fut", TENSE_FUTURE>>, <<"aor", TENSE_AORIST>>,
                    <<"pr", TENSE_PRESENT>> >>

TenseTokensPresent == {i \in 1..Len(TensePriority) : HasToken(TensePriority[i][1])}

\* C22: verb tense classification resolves a descriptor with several tense
\* tokens by the fixed priority optative > imperative > future > aorist >
\* present, whatever the order of the tokens, and gives tense 0 (None) to a
\* descriptor without a tense token.
C22_TenseByPriority ==
    gram.step \in {"verb", "title"} =>
        gram.result.tense
          = IF TenseTokensPresent = {} THEN TENSE_NONE
            ELSE TensePriority[CHOOSE i \in TenseTokensPresent :
                                   \A j \in TenseTokensPresent : i <= j][2]

\* a descriptor whose only tokens are the imperfect, a person and a number
C22_Witness ==
    /\ gram.step = "verb"
    /\ HasToken("imperf")
    /\ TenseTokensPresent = {}
    /\ gram.result.tense = TENSE_IMPERATIVE

\* the case abbreviations in the order of the lookup, with their values
CaseOrder == << <<"nom", CASE_NOMINATIVE>>, <<"acc", CASE_ACCUSATIVE>>,
                <<"instr", CASE_INSTRUMENTAL>>, <<"dat", CASE_DATIVE>>,
                <<"abl", CASE_ABLATIVE>>, <<"gen", CASE_GENITIVE>>,
                <<"loc", CASE_LOCATIVE>>, <<"voc", CASE_VOCATIVE>> >>

CaseTokensPresent == {i \in 1..Len(CaseOrder) : HasToken(CaseOrder[i][1])}
CasesInLabel == {i \in 1..Len(CaseOrder) : Contains(CaseOrder[i][1], lower(gram.label))}

\* C23: noun case classification. A case token in the descriptor decides the
\* case (first match in the order nom, acc, instr, dat, abl, gen, loc, voc)
\* and the row label is ignored; the label is consulted only when the
\* descriptor yields no case; when neither yields one the case is 0 (None),
\* as are number and gender when the descriptor does not determine them.
C23_CaseFromDescriptorThenLabel ==
    gram.step \in {"noun", "noun_run"} =>
        /\ gram.result.case_name
             = IF CaseTokensPresent # {}
               THEN CaseOrder[CHOOSE i \in CaseTokensPresent :
                                  \A j \in CaseTokensPresent : i <= j][2]
               ELSE IF CasesInLabel # {}
               THEN CaseOrder[CHOOSE i \in CasesInLabel :
                                  \A j \in CasesInLabel : i <= j][2]
               ELSE CASE_NONE
        /\ ~(HasToken("sg") \/ HasToken("pl")) => gram.result.number = NUMBER_NONE
        /\ ~(HasToken("masc") \/ HasToken("fem") \/ HasToken("nt")) =>
              gram.result.gender = grammar_GENDER_NONE

\* two case tokens, the later one first in the lookup order, and a row label
\* that names a third case
C23_Witness ==
    /\ gram.step = "noun"
    /\ Len(gram.tokens) >= 2
    /\ gram.tokens[1] = "voc" /\ gram.tokens[2] = "nom"
    /\ gram.label = "dative"
    /\ gram.result.case_name = CASE_NOMINATIVE

\* C30: the two verb classifiers agree. For every descriptor made of known
\* grammar tokens (tense, person, number, reflx), with one tense token or
\* several, parse_verb_title returns the tense, person, number and reflexive
\* values parse_verb_grammar returns.
C30_VerbClassifiersAgree ==
    (/\ gram.step = "title"
     /\ \A k \in 1..Len(gram.tokens) : gram.tokens[k] \in KnownVerbTokens) =>
        /\ gram.other.tense = gram.result.tense
        /\ gram.other.person = gram.result.person
        /\ gram.other.number = gram.result.number
        /\ gram.other.reflexive = gram.result.reflexive

\* a descriptor with the tokens opt and pr
C30_Witness ==
    /\ gram.step = "title"
    /\ \A k \in 1..Len(gram.tokens) : gram.tokens[k] \in KnownVerbTokens
    /\ HasToken("opt") /\ HasToken("pr")
    /\ gram.result.tense = TENSE_OPTATIVE
    /\ gram.other.tense = TENSE_PRESENT
    /\ gram.other.person = gram.result.person
    /\ gram.other.number = gram.result.number

\* C29: the gender digit means the same gender everywhere. The GrammarEnums
\* of extraction/grammar.py, the GrammarEnums and pos_to_gender of the
\* orchestrator and the gender name table used when decoding give the same
\* integer to masculine, to feminine and to neuter.
C29_GenderDigitAgrees ==
    gram.step = "noun_run" =>
        /\ gram.result.gender = gram.other.gender
        /\ gram.result.pos_gender = gram.other.pos_gender
        /\ gram.pos = "masc" => gram.result.pos_gender = GENDER_NAMES.Masculine
        /\ gram.pos = "fem" => gram.result.pos_gender = GENDER_NAMES.Feminine
        /\ gram.pos = "nt" => gram.result.pos_gender = GENDER_NAMES.Neuter

\* a feminine noun: extraction/grammar.py gives the digit the name table
\* reads as neuter
C29_Witness ==
    /\ gram.step = "noun_run"
    /\ gram.pos = "fem" /\ HasToken("fem")
    /\ gram.result.pos_gender = GENDER_NAMES.Neuter
    /\ gram.result.gender = GENDER_NAMES.Neuter
    /\ gram.other.pos_gender = GENDER_NAMES.Feminine
    /\ gram.other.gender = GENDER_NAMES.Feminine

NounRealizes(forms, c, n) ==
    \E i \in DOMAIN forms : forms[i].case_name = c /\ forms[i].number = n

\* the noun of the call has a finding: plural-only, singular-only, or a
\* combination of a case and an expected number that no form realizes
NounFinding(c) ==
    LET plural_only == validator_is_plural_only_pattern(c.pattern)
        singular_only == /\ ~plural_only
                         /\ \E i \in DOMAIN c.forms : c.forms[i].number = 1
                         /\ \A i \in DOMAIN c.forms : c.forms[i].number # 2
        expected == IF plural_only THEN {2} ELSE IF singular_only THEN {1} ELSE {1, 2}
    IN  \/ plural_only
        \/ singular_only
        \/ \E k \in 1..8, n \in expected : ~NounRealizes(c.forms, k, n)

\* the persons the forms of the verb realize, and those they realize in a tense
PersonsFound(forms) == {forms[i].person : i \in DOMAIN forms} \ {0}
PersonsIn(forms, t) ==
    {forms[i].person : i \in {j \in DOMAIN forms : forms[j].tense = t}} \ {0}
TenseRealized(forms, t) == \E i \in DOMAIN forms : forms[i].tense = t

\* the verb of the call has a finding: a missing or an unusual tense, a missing
\* active combination, impersonal, or defective persons in a tense
VerbFinding(c) ==
    \/ \E t \in 1..4 : ~TenseRealized(c.forms, t)
    \/ TenseRealized(c.forms, 5)
    \/ \E t \in 1..4, p \in 1..3, n \in 1..2 :
          ~\E i \in DOMAIN c.forms :
              /\ c.forms[i].tense = t /\ c.forms[i].person = p
              /\ c.forms[i].number = n /\ c.forms[i].reflexive # 1
    \/ PersonsFound(c.forms) = {3}
    \/ \E t \in 1..4 : PersonsIn(c.forms, t) # {} /\ (1..3) \ PersonsIn(c.forms, t) # {}

\* `after` is `before` with exactly one record appended, for this lemma
OneAppended(before, after, c) ==
    /\ Len(after) = Len(before) + 1
    /\ SubSeq(after, 1, Len(before)) = before
    /\ after[Len(after)].lemma = c.lemma
    /\ after[Len(after)].pattern = c.pattern

\* C24: validate_noun / validate_verb append exactly one record for a lemma
\* with at least one finding and none for a lemma without; every call adds one
\* to the counter of validated lemmas of its kind and leaves every earlier
\* record as it was.
C24_RecordsOnlyIrregular ==
    [][validator' # validator =>
        LET before == validator
            after == validator'
            c == validator'.last
        IN  /\ c.kind = "noun" =>
                  /\ after.noun_count = before.noun_count + 1
                  /\ after.verb_count = before.verb_count
                  /\ after.verb_irregularities = before.verb_irregularities
                  /\ IF NounFinding(c)
                     THEN OneAppended(before.noun_irregularities,
                                      after.noun_irregularities, c)
                     ELSE after.noun_irregularities = before.noun_irregularities
            /\ c.kind = "verb" =>
                  /\ after.verb_count = before.verb_count + 1
                  /\ after.noun_count = before.noun_count
                  /\ after.noun_irregularities = before.noun_irregularities
                  /\ IF VerbFinding(c)
                     THEN OneAppended(before.verb_irregularities,
                                      after.verb_irregularities, c)
                     ELSE after.verb_irregularities = before.verb_irregularities]_vars

\* an irregular lemma was recorded, then a regular one was validated and not recorded
C24_Witness ==
    /\ validator.noun_count + validator.verb_count = 2
    /\ Len(validator.noun_irregularities) + Len(validator.verb_irregularities) = 1
    /\ validator.last.kind = "verb" => ~VerbFinding(validator.last)
    /\ validator.last.kind = "noun" => ~NounFinding(validator.last)
    /\ validator.last.kind # "none"

\* C25: the record of a verb is impersonal exactly when the persons found
\* across all its forms are {third}; a tense is in defective_persons exactly
\* when it is an expected tense, some person is realized in it, some person is
\* missing in it and the lemma is not impersonal; no record is both impersonal
\* and defective; an expected tense with no realization is in missing_tenses
\* and not in defective_persons.
C25_ImpersonalAndDefective ==
    (validator.last.kind = "verb" /\ VerbFinding(validator.last)) =>
        LET forms == validator.last.forms
            r == validator.verb_irregularities[Len(validator.verb_irregularities)]
            listed(name, names) == \E k \in DOMAIN names : names[k] = name
        IN  /\ r.is_impersonal <=> PersonsFound(forms) = {3}
            /\ \A t \in 1..5 :
                  TENSE_NAMES[t] \in DOMAIN r.defective_persons <=>
                      /\ t \in EXPECTED_TENSES
                      /\ PersonsIn(forms, t) # {}
                      /\ EXPECTED_PERSONS \ PersonsIn(forms, t) # {}
                      /\ PersonsFound(forms) # {3}
            /\ ~(r.is_impersonal /\ DOMAIN r.defective_persons # {})
            /\ \A t \in EXPECTED_TENSES :
                  ~TenseRealized(forms, t) =>
                      /\ listed(TENSE_NAMES[t], r.missing_tenses)
                      /\ TENSE_NAMES[t] \notin DOMAIN r.defective_persons

\* an impersonal verb was recorded, then a verb with defective persons
C25_Witness ==
    /\ Len(validator.verb_irregularities) = 2
    /\ validator.verb_irregularities[1].is_impersonal
    /\ DOMAIN validator.verb_irregularities[1].defective_persons = {}
    /\ ~validator.verb_irregularities[2].is_impersonal
    /\ DOMAIN validator.verb_irregularities[2].defective_persons # {}

(***************************************************************************)
(* Headwords without a usable template.                                    *)
(***************************************************************************)
\* the headword is in the list of discarded lemmas the rebuild keeps
RecordedAsDiscarded(word) ==
    \E i \in DOMAIN stats.nouns_discarded : stats.nouns_discarded[i] = word.lemma_1

Consecutive(m, start, next) ==
    /\ Cardinality(Ids(m)) = Cardinality(DOMAIN m)
    /\ Ids(m) = start .. (next - 1)
    /\ \A l \in DOMAIN m : next > m[l]

\* C27: when no registry file exists before the first run, every registry a
\* process holds has in each partition pairwise distinct IDs that are exactly
\* the consecutive integers from the start ID to watermark - 1; it passes
\* validate_registry and the diff of save_registry against the snapshot taken
\* at load.
C27_FreshRegistryConsecutive ==
    registry # NoRegistry =>
        /\ Consecutive(registry.nouns, NOUN_ID_START, registry.next_noun_id)
        /\ Consecutive(registry.verbs, VERB_ID_START, registry.next_verb_id)
        /\ validate_registry(registry)
        /\ NoMappingLost(registry, original_registry)

\* a later run loaded the registry an earlier run saved and added a noun to it
C27_Witness ==
    /\ Cardinality(DOMAIN original_registry.nouns) = 1
    /\ Cardinality(DOMAIN registry.nouns) = 2
    /\ DOMAIN registry.verbs # {}
    /\ registry.next_noun_id = NOUN_ID_START + 2

=============================================================================
